---- MODULE Spec2Model ----
(***************************************************************************)
(* A model of the note engine `n`: the Markdown path identity (path.rs),   *)
(* the byte-offset / row-column mapper (pos.rs), the link lookup by cursor *)
(* position (document.rs), the PageRank iteration (rank.rs) and the rope   *)
(* store of the language server (lsp.rs).                                  *)
(*                                                                         *)
(* Text is a sequence of characters; a character is a one-character string.*)
(* "E" stands for a two-byte scalar (one UTF-16 unit), "G" for a four-byte *)
(* scalar (two UTF-16 units); every other character is ASCII.              *)
(***************************************************************************)
EXTENDS Integers, Sequences, FiniteSets, TLC

VARIABLES
    \* ---- path.rs: two MarkdownPaths and a map keyed by MarkdownPath
    pathPc, pathBase, pathLeafA, pathLeafB, pathA, pathB, pathMap, pathGot,
    \* ---- pos.rs: one PosMapper and one conversion there and back
    pmPc, pmText, pmEncoding, pmOffset, pmPosition, pmBack,
    \* ---- document.rs: one Document and one lookup of the link at a position
    docPc, docText, docLinks, docRow, docCol, docFound,
    \* ---- rank.rs: one call of rank()
    rkPc, rkNumDocs, rkLinks, rkNumIter, rkInbound, rkOutdeg, rkRank, rkDen, rkIter,
    \* ---- lsp.rs: the Backend's rope store and the handlers in flight
    lspDocuments,   \* Backend.documents: for every Url, None or Some(rope)
    lspGuard,       \* for every Url, the handler that holds its entry, or 0
    lspHandlers,    \* the handlers by their number of arrival
    lspReceived,    \* the number of messages received
    lspResponse,    \* the last response sent to the client
    lspCrashed,     \* a handler has panicked
    \* ---- what the claims on the store are stated against (not read by
    \* any handler)
    lspCommitted,   \* the store as its last completed operation left it
    lspTorn,        \* a handler has found an entry other than lspCommitted
    lspExpected,    \* the store, had each notification run alone on arrival
    lspLastOC,      \* for every Url, its last didOpen or didClose received
    lspChanged,     \* for every Url, whether a didChange on it has returned
    \* ---- search.rs: one Corpus and one call of score
    srPc, srDocs, srAvgdl, srDf, srIdf, srQuery, srDocument, srScore,
    \* ---- vault.rs: one Vault::new and one find_backlinks
    vtPc, vtBase, vtContent, vtDocuments, vtCorpus, vtErrors, vtTarget, vtBacklinks,
    \* ---- the search subcommand
    plPc, plBm25, plRank, plRes,
    \* ---- completion on one rope
    cpPc, cpRope, cpCursor, cpCursorChar, cpTrigger, cpAnswer,
    \* ---- goto_definition on one document
    gdPc, gdText, gdLinks, gdCursor, gdAnswer,
    \* ---- Query::matches on one document
    qyPc, qyQuery, qyMetadata, qyResult,
    \* ---- did_change on one entry
    chPc, chRope, chBatch, chResult,
    \* ---- Document::stripped on one document
    stPc, stBlocks, stResult,
    \* ---- Document::new on a file with frontmatter and links
    dpPc, dpEntries, dpReads, dpLinks, dpMetadata,
    \* ---- Vault::new under the orders of its parallel iterators
    pbPc, pbBase, pbContent, pbTodo, pbDocuments, pbLeft, pbDocs, pbParts, pbCorpus,
    \* ---- the live store and the Vault of the Backend
    fsPc, fsStore, fsVault, fsKind, fsUri, fsCount,
    \* ---- the handlers, their awaits and the entries they hold
    lkHandlers, lkGuard, lkEntry, lkReceived, lkCrashed

pathVars == <<pathPc, pathBase, pathLeafA, pathLeafB, pathA, pathB, pathMap, pathGot>>
posVars == <<pmPc, pmText, pmEncoding, pmOffset, pmPosition, pmBack>>
docVars == <<docPc, docText, docLinks, docRow, docCol, docFound>>
rankVars == <<rkPc, rkNumDocs, rkLinks, rkNumIter, rkInbound, rkOutdeg, rkRank, rkDen, rkIter>>
lspVars == <<lspDocuments, lspGuard, lspHandlers, lspReceived, lspResponse, lspCrashed,
             lspCommitted, lspTorn, lspExpected, lspLastOC, lspChanged>>
searchVars == <<srPc, srDocs, srAvgdl, srDf, srIdf, srQuery, srDocument, srScore>>
vaultVars == <<vtPc, vtBase, vtContent, vtDocuments, vtCorpus, vtErrors, vtTarget, vtBacklinks>>
pipelineVars == <<plPc, plBm25, plRank, plRes>>
completionVars == <<cpPc, cpRope, cpCursor, cpCursorChar, cpTrigger, cpAnswer>>
definitionVars == <<gdPc, gdText, gdLinks, gdCursor, gdAnswer>>
queryVars == <<qyPc, qyQuery, qyMetadata, qyResult>>
changeVars == <<chPc, chRope, chBatch, chResult>>
strippedVars == <<stPc, stBlocks, stResult>>
parseVars == <<dpPc, dpEntries, dpReads, dpLinks, dpMetadata>>
buildVars == <<pbPc, pbBase, pbContent, pbTodo, pbDocuments, pbLeft, pbDocs, pbParts, pbCorpus>>
storeVars == <<fsPc, fsStore, fsVault, fsKind, fsUri, fsCount>>
lockVars == <<lkHandlers, lkGuard, lkEntry, lkReceived, lkCrashed>>
vars == <<pathVars, posVars, docVars, rankVars, lspVars, searchVars, vaultVars, pipelineVars, completionVars, definitionVars, queryVars, changeVars, strippedVars, parseVars, buildVars, storeVars, lockVars>>

\* What the actions of one component leave alone.
pathOthers == <<posVars, docVars, rankVars, lspVars, searchVars, vaultVars, pipelineVars, completionVars, definitionVars, queryVars, changeVars, strippedVars, parseVars, buildVars, storeVars, lockVars>>
posOthers == <<pathVars, docVars, rankVars, lspVars, searchVars, vaultVars, pipelineVars, completionVars, definitionVars, queryVars, changeVars, strippedVars, parseVars, buildVars, storeVars, lockVars>>
docOthers == <<pathVars, posVars, rankVars, lspVars, searchVars, vaultVars, pipelineVars, completionVars, definitionVars, queryVars, changeVars, strippedVars, parseVars, buildVars, storeVars, lockVars>>
rankOthers == <<pathVars, posVars, docVars, lspVars, searchVars, vaultVars, pipelineVars, completionVars, definitionVars, queryVars, changeVars, strippedVars, parseVars, buildVars, storeVars, lockVars>>
lspOthers == <<pathVars, posVars, docVars, rankVars, searchVars, vaultVars, pipelineVars, completionVars, definitionVars, queryVars, changeVars, strippedVars, parseVars, buildVars, storeVars, lockVars>>
vaultOthers == <<pathVars, posVars, docVars, rankVars, lspVars, searchVars, pipelineVars, completionVars, definitionVars, queryVars, changeVars, strippedVars, parseVars, buildVars, storeVars, lockVars>>
searchOthers == <<pathVars, posVars, docVars, rankVars, lspVars, vaultVars, pipelineVars, completionVars, definitionVars, queryVars, changeVars, strippedVars, parseVars, buildVars, storeVars, lockVars>>
completionOthers == <<pathVars, posVars, docVars, rankVars, lspVars, searchVars, vaultVars, pipelineVars, definitionVars, queryVars, changeVars, strippedVars, parseVars, buildVars, storeVars, lockVars>>
pipelineOthers == <<pathVars, posVars, docVars, rankVars, lspVars, searchVars, vaultVars, completionVars, definitionVars, queryVars, changeVars, strippedVars, parseVars, buildVars, storeVars, lockVars>>
queryOthers == <<pathVars, posVars, docVars, rankVars, lspVars, searchVars, vaultVars, pipelineVars, completionVars, definitionVars, changeVars, strippedVars, parseVars, buildVars, storeVars, lockVars>>
definitionOthers == <<pathVars, posVars, docVars, rankVars, lspVars, searchVars, vaultVars, pipelineVars, completionVars, queryVars, changeVars, strippedVars, parseVars, buildVars, storeVars, lockVars>>
strippedOthers == <<pathVars, posVars, docVars, rankVars, lspVars, searchVars, vaultVars, pipelineVars, completionVars, definitionVars, queryVars, changeVars, parseVars, buildVars, storeVars, lockVars>>
changeOthers == <<pathVars, posVars, docVars, rankVars, lspVars, searchVars, vaultVars, pipelineVars, completionVars, definitionVars, queryVars, strippedVars, parseVars, buildVars, storeVars, lockVars>>
buildOthers == <<pathVars, posVars, docVars, rankVars, lspVars, searchVars, vaultVars, pipelineVars, completionVars, definitionVars, queryVars, changeVars, strippedVars, parseVars, storeVars, lockVars>>
parseOthers == <<pathVars, posVars, docVars, rankVars, lspVars, searchVars, vaultVars, pipelineVars, completionVars, definitionVars, queryVars, changeVars, strippedVars, buildVars, storeVars, lockVars>>
lockOthers == <<pathVars, posVars, docVars, rankVars, lspVars, searchVars, vaultVars, pipelineVars, completionVars, definitionVars, queryVars, changeVars, strippedVars, parseVars, buildVars, storeVars>>
storeOthers == <<pathVars, posVars, docVars, rankVars, lspVars, searchVars, vaultVars, pipelineVars, completionVars, definitionVars, queryVars, changeVars, strippedVars, parseVars, buildVars, lockVars>>

(***************************************************************************)
(* Generic helpers.                                                        *)
(***************************************************************************)
Min(a, b) == IF a <= b THEN a ELSE b

\* The sum of the elements of a sequence.
SumSeq(s) ==
    LET Sum[i \in 0..Len(s)] == IF i = 0 THEN 0 ELSE Sum[i - 1] + s[i]
    IN  Sum[Len(s)]

Last(s) == s[Len(s)]

Front(s) == SubSeq(s, 1, Len(s) - 1)

(***************************************************************************)
(* std::path on Unix, as far as path.rs uses it.  A path string is a       *)
(* sequence of characters; its components are sequences of characters,     *)
(* with <<"/">> for the root directory.                                    *)
(***************************************************************************)
RootDir == <<"/">>
CurDir == <<".">>
ParentDir == <<".", ".">>

\* The segments of a path string between its separators (empty ones kept).
RECURSIVE SplitSlash(_, _)
SplitSlash(s, cur) ==
    IF s = <<>> THEN <<cur>>
    ELSE IF Head(s) = "/" THEN <<cur>> \o SplitSlash(Tail(s), <<>>)
    ELSE SplitSlash(Tail(s), Append(cur, Head(s)))

IsAbsolute(s) == s # <<>> /\ Head(s) = "/"

\* Path::components: empty segments and "." are normalised away, except a
\* leading "." of a relative path; ".." is kept.
Components(s) ==
    LET segs == SplitSlash(s, <<>>)
        keep(i) == /\ segs[i] # <<>>
                   /\ (segs[i] = CurDir => (i = 1 /\ ~IsAbsolute(s)))
        idx == {i \in 1..Len(segs) : keep(i)}
        RECURSIVE Pick(_)
        Pick(i) == IF i > Len(segs) THEN <<>>
                   ELSE IF i \in idx THEN <<segs[i]>> \o Pick(i + 1)
                   ELSE Pick(i + 1)
    IN  (IF IsAbsolute(s) THEN <<RootDir>> ELSE <<>>) \o Pick(1)

\* PathBuf::join: an absolute argument replaces the receiver.
Join(base, leaf) ==
    IF IsAbsolute(leaf) THEN leaf
    ELSE IF base = <<>> THEN leaf
    ELSE IF Last(base) = "/" THEN base \o leaf
    ELSE base \o <<"/">> \o leaf

\* Path::extension: the part of the file name after its last ".", if the
\* name has one that is not its first character.  <<>> stands for None.
Extension(s) ==
    LET comps == Components(s)
    IN  IF comps = <<>> THEN <<>>
        ELSE LET name == Last(comps)
                 dots == {i \in 2..Len(name) : name[i] = "."}
             IN  IF name \in {RootDir, CurDir, ParentDir} \/ dots = {} THEN <<>>
                 ELSE LET d == CHOOSE i \in dots : \A j \in dots : j <= i
                      IN  SubSeq(name, d + 1, Len(name))

(***************************************************************************)
(* percent_encoding::percent_decode_str(..).decode_utf8_lossy(): "%" and   *)
(* two hexadecimal digits become the byte they name; anything else stays.  *)
(***************************************************************************)
HexDigits == <<"0", "1", "2", "3", "4", "5", "6", "7", "8", "9",
               "A", "B", "C", "D", "E", "F">>

IsHex(c) == \E i \in 1..16 : HexDigits[i] = c

HexVal(c) == (CHOOSE i \in 1..16 : HexDigits[i] = c) - 1

\* The characters of the model by their byte value; a byte outside the
\* model's alphabet decodes to "?".
ByteChar(b) ==
    CASE b = 32 -> " "
      [] b = 37 -> "%"
      [] b = 46 -> "."
      [] b = 47 -> "/"
      [] OTHER -> "?"

RECURSIVE PercentDecode(_)
PercentDecode(s) ==
    IF s = <<>> THEN <<>>
    ELSE IF Head(s) = "%" /\ Len(s) >= 3 /\ IsHex(s[2]) /\ IsHex(s[3])
         THEN <<ByteChar(16 * HexVal(s[2]) + HexVal(s[3]))>>
                  \o PercentDecode(SubSeq(s, 4, Len(s)))
         ELSE <<Head(s)>> \o PercentDecode(Tail(s))

(***************************************************************************)
(* The file system the vault lives in: the absolute component sequences    *)
(* that exist.  There are no symbolic links.                               *)
(***************************************************************************)
NameV == <<"v">>

Letters == <<"a", "b", "c", "d", "e", "f", "g", "h">>

\* The i-th note of the vault directory: a.md, b.md, ...
NameOf(i) == <<Letters[i], ".", "m", "d">>

NameA == NameOf(1)
NameB == NameOf(2)
NameSp == <<"a", " ", "b", ".", "m", "d">>
NameTxt == <<"c", ".", "t", "x", "t">>

FsDirs == {<<RootDir>>, <<RootDir, NameV>>}

FsFiles == {<<RootDir, NameV, NameOf(i)>> : i \in 1..Len(Letters)}
               \cup {<<RootDir, NameV, NameSp>>, <<RootDir, NameV, NameTxt>>}

\* The working directory of the process.
Cwd == <<RootDir>>

\* fs::canonicalize: the absolute path without "." and "..", or <<>> (an
\* error) when a component does not exist.
RECURSIVE Resolve(_, _)
Resolve(comps, acc) ==
    IF comps = <<>> THEN IF acc \in FsDirs \cup FsFiles THEN acc ELSE <<>>
    ELSE IF acc \notin FsDirs THEN <<>>
    ELSE IF Head(comps) = RootDir THEN Resolve(Tail(comps), <<RootDir>>)
    ELSE IF Head(comps) = CurDir THEN Resolve(Tail(comps), acc)
    ELSE IF Head(comps) = ParentDir
         THEN Resolve(Tail(comps), IF Len(acc) > 1 THEN Front(acc) ELSE acc)
    ELSE Resolve(Tail(comps), Append(acc, Head(comps)))

Canonicalize(s) == Resolve(Components(s), Cwd)

(***************************************************************************)
(* path.rs: MarkdownPath.                                                  *)
(***************************************************************************)
ExtMd == <<"m", "d">>

\* MarkdownPath::new: the extension is tested on the leaf as given, then
\* base and leaf are percent-decoded, joined and canonicalised.
MarkdownPathNew(base_path, path) ==
    IF Extension(path) = ExtMd
    THEN LET base == PercentDecode(base_path)
             leaf == PercentDecode(path)
             canonical == Canonicalize(Join(base, leaf))
         IN  IF canonical = <<>>
             THEN [ok |-> FALSE, err |-> "CanonicalisationFailed"]
             ELSE [ok |-> TRUE, base_path |-> base, leaf |-> leaf,
                   canonical_path |-> canonical]
    ELSE [ok |-> FALSE, err |-> "NotMarkdown"]

\* impl PartialEq for MarkdownPath: the canonical paths are compared.
MarkdownPathEq(a, b) == a.canonical_path = b.canonical_path

\* #[derive(Hash)] on MarkdownPath: what is fed to the hasher, field by
\* field.  PathBuf hashes its components, so two fields feed the hasher the
\* same data iff their components are equal.
MarkdownPathHash(p) ==
    <<Components(p.base_path), Components(p.leaf), p.canonical_path>>

(***************************************************************************)
(* std::collections::HashMap keyed by MarkdownPath.  A map is a set of     *)
(* entries [key, value].  A key is found for certain where an equal key    *)
(* with the same hash is stored.  Where the only equal keys stored hash    *)
(* differently, Hash and Eq disagree and the outcome of the lookup is not  *)
(* specified by the standard library: the entry may or may not be found.   *)
(* None is the absent result.                                              *)
(***************************************************************************)
None == [some |-> FALSE]

Some(v) == [some |-> TRUE, val |-> v]

HashMapGet(map, key) ==
    LET equal == {e \in map : MarkdownPathEq(e.key, key)}
        sameHash == {e \in equal : MarkdownPathHash(e.key) = MarkdownPathHash(key)}
    IN  IF sameHash # {} THEN {Some(e.value) : e \in sameHash}
        ELSE {None} \cup {Some(e.value) : e \in equal}

\* HashMap::insert (the key of an equal entry stays, its value is replaced;
\* under a differing hash the old entry may be missed and a second one kept).
HashMapInsert(map, key, value) ==
    LET equal == {e \in map : MarkdownPathEq(e.key, key)
                               /\ MarkdownPathHash(e.key) = MarkdownPathHash(key)}
    IN  IF equal = {} THEN map \cup {[key |-> key, value |-> value]}
        ELSE (map \ equal) \cup {[key |-> e.key, value |-> value] : e \in equal}

(***************************************************************************)
(* The inputs of the path specification.                                   *)
(***************************************************************************)
StrV == <<"/", "v">>
StrVSlash == <<"/", "v", "/">>

PathBases == {StrV, StrVSlash}

PathLeaves ==
    { StrV \o <<"/">> \o NameB,                \* /v/b.md, as read_dir gives it
      <<".", "/">> \o NameB,                   \* ./b.md
      NameB,                                   \* b.md
      NameA,                                   \* a.md
      <<"a", "%", "2", "0">> \o NameB,         \* a%20b.md
      NameSp,                                  \* "a b.md"
      NameTxt,                                 \* c.txt
      <<"x", ".", "m", "d">> }                 \* x.md, which does not exist

NoPath == [ok |-> FALSE, err |-> "none"]

PathIdle ==
    /\ pathPc = "idle" /\ pathBase = <<>> /\ pathLeafA = <<>> /\ pathLeafB = <<>>
    /\ pathA = NoPath /\ pathB = NoPath /\ pathMap = {} /\ pathGot = None

PathInit ==
    /\ pathPc = "new"
    /\ pathBase \in PathBases
    /\ pathLeafA \in PathLeaves
    /\ pathLeafB \in PathLeaves
    /\ pathA = NoPath /\ pathB = NoPath /\ pathMap = {} /\ pathGot = None

\* Two MarkdownPaths are built from the same base and two leaves.
PathNew ==
    /\ pathPc = "new"
    /\ pathA' = MarkdownPathNew(pathBase, pathLeafA)
    /\ pathB' = MarkdownPathNew(pathBase, pathLeafB)
    /\ pathPc' = "insert"
    /\ UNCHANGED <<pathBase, pathLeafA, pathLeafB, pathMap, pathGot>>
    /\ UNCHANGED pathOthers

\* The first is stored as a key (Vault.documents, the Ranker's idx).
PathInsert ==
    /\ pathPc = "insert"
    /\ pathA.ok /\ pathB.ok
    /\ pathMap' = HashMapInsert(pathMap, pathA, 1)
    /\ pathPc' = "get"
    /\ UNCHANGED <<pathBase, pathLeafA, pathLeafB, pathA, pathB, pathGot>>
    /\ UNCHANGED pathOthers

\* The second is looked up (Vault::get_document, idx.get).
PathGet ==
    /\ pathPc = "get"
    /\ pathGot' \in HashMapGet(pathMap, pathB)
    /\ pathPc' = "done"
    /\ UNCHANGED <<pathBase, pathLeafA, pathLeafB, pathA, pathB, pathMap>>
    /\ UNCHANGED pathOthers

PathNext == PathNew \/ PathInsert \/ PathGet

(***************************************************************************)
(* pos.rs: PosMapper.  Offsets are byte offsets into the UTF-8 text.       *)
(***************************************************************************)
Newline == "\n"

Utf8Len(c) == CASE c = "E" -> 2 [] c = "G" -> 4 [] OTHER -> 1

Utf16Len(c) == IF c = "G" THEN 2 ELSE 1

\* The byte offset at which character i of the text starts.
RECURSIVE ByteStart(_, _)
ByteStart(text, i) ==
    IF i <= 1 THEN 0 ELSE ByteStart(text, i - 1) + Utf8Len(text[i - 1])

\* str::len, in bytes.
ByteLen(text) == ByteStart(text, Len(text) + 1)

IsCharBoundary(text, b) == \E i \in 1..(Len(text) + 1) : ByteStart(text, i) = b

\* &text[from..to] panics unless the range is ordered, in bounds and on
\* character boundaries.
StrSliceOk(text, from, to) ==
    from <= to /\ IsCharBoundary(text, from) /\ IsCharBoundary(text, to)

\* &text[from..to]: the characters of the byte range.
StrSlice(text, from, to) ==
    IF ~StrSliceOk(text, from, to) THEN <<>>
    ELSE LET RECURSIVE Take(_)
             Take(i) == IF i > Len(text) THEN <<>>
                        ELSE IF from <= ByteStart(text, i) /\ ByteStart(text, i) < to
                             THEN <<text[i]>> \o Take(i + 1)
                             ELSE Take(i + 1)
         IN  Take(1)

\* PosMapper::new: line_starts holds, for every newline byte, the offset of
\* the byte after it, in ascending order.  Offset 0 is not a member.
LineStarts(text) ==
    LET RECURSIVE Scan(_)
        Scan(i) == IF i > Len(text) THEN <<>>
                   ELSE IF text[i] = Newline
                        THEN <<ByteStart(text, i) + 1>> \o Scan(i + 1)
                        ELSE Scan(i + 1)
    IN  Scan(1)

\* The UTF-16 code units of a text: one for every char and one more for
\* every char of two.
Utf16Count(s) == Len(s) + Cardinality({i \in 1..Len(s) : Utf16Len(s[i]) = 2})

RECURSIVE Utf8Count(_)
Utf8Count(s) == IF s = <<>> THEN 0 ELSE Utf8Len(Head(s)) + Utf8Count(Tail(s))

Encodings == {"utf-8", "utf-16", "utf-32"}

PosErr(e) == [ok |-> FALSE, err |-> e]

\* line_starts.partition_point(|&start| start <= offset) - 1 on usize: -1
\* stands for the subtraction's overflow.
PartitionPointMinusOne(line_starts, offset) ==
    Cardinality({k \in 1..Len(line_starts) : line_starts[k] <= offset}) - 1

\* PosMapper::offset_to_position.  The subtraction of one from a partition
\* point of zero panics in a build with overflow checks, and otherwise wraps
\* to usize::MAX, on which the indexing of line_starts panics.
OffsetToPosition(text, encoding, offset) ==
    IF offset > ByteLen(text) THEN PosErr("OffsetOutOfRange")
    ELSE LET line_starts == LineStarts(text)
             line_start_idx == PartitionPointMinusOne(line_starts, offset)
         IN  IF line_start_idx < 0 \/ line_start_idx >= Len(line_starts)
             THEN PosErr("Panic")
             ELSE LET line_start == line_starts[line_start_idx + 1]
                      before == StrSlice(text, line_start, offset)
                  IN  IF ~StrSliceOk(text, line_start, offset) THEN PosErr("Panic")
                      ELSE IF encoding = "utf-16"
                           THEN [ok |-> TRUE, row |-> line_start_idx + 1,
                                 col |-> Utf16Count(before)]
                      ELSE IF encoding \in {"utf-8", "utf-32"}
                           THEN [ok |-> TRUE, row |-> line_start_idx + 1,
                                 col |-> Len(before)]
                      ELSE PosErr("UnknownEncoding")

\* The UTF-16 branch of position_to_offset: characters are consumed while
\* fewer than `character` code units have been passed.
RECURSIVE Utf16Advance(_, _, _)
Utf16Advance(line_text, character, utf16_offset) ==
    IF line_text = <<>> \/ utf16_offset >= character THEN 0
    ELSE Utf8Len(Head(line_text))
           + Utf16Advance(Tail(line_text), character, utf16_offset + Utf16Len(Head(line_text)))

\* PosMapper::position_to_offset.
PositionToOffset(text, encoding, line, character) ==
    LET line_starts == LineStarts(text)
    IN  IF line >= Len(line_starts) THEN PosErr("LineNotFound")
        ELSE LET line_start == line_starts[line + 1]
                 line_end == IF line + 1 < Len(line_starts)
                             THEN line_starts[line + 2] ELSE ByteLen(text)
                 line_text == StrSlice(text, line_start, line_end)
             IN  IF encoding = "utf-16"
                 THEN [ok |-> TRUE,
                       offset |-> Min(line_start + Utf16Advance(line_text, character, 0),
                                      line_end)]
                 ELSE IF encoding \in {"utf-8", "utf-32"}
                 THEN [ok |-> TRUE,
                       offset |-> Min(line_start
                                        + Utf8Count(SubSeq(line_text, 1,
                                                           Min(character, Len(line_text)))),
                                      line_end)]
                 ELSE PosErr("UnknownEncoding")

(***************************************************************************)
(* The inputs of the position specification: every text of at most         *)
(* MaxTextLen characters over an ASCII letter, the newline and the two     *)
(* wide scalars.                                                           *)
(***************************************************************************)
MaxTextLen == 3

PosAlphabet == {"a", Newline, "E", "G"}

PosTexts == UNION {[1..n -> PosAlphabet] : n \in 0..MaxTextLen}

PosIdle ==
    /\ pmPc = "idle" /\ pmText = <<>> /\ pmEncoding = "utf-16" /\ pmOffset = 0
    /\ pmPosition = PosErr("none") /\ pmBack = PosErr("none")

PosInit ==
    /\ pmPc = "start"
    /\ pmText \in PosTexts
    /\ pmEncoding \in Encodings
    /\ pmOffset = 0
    /\ pmPosition = PosErr("none") /\ pmBack = PosErr("none")

\* offset_to_position of a byte offset on a character boundary.
PosForward ==
    /\ pmPc = "start"
    /\ \E b \in 0..ByteLen(pmText) :
          /\ IsCharBoundary(pmText, b)
          /\ pmOffset' = b
          /\ pmPosition' = OffsetToPosition(pmText, pmEncoding, b)
    /\ pmPc' = "forward"
    /\ UNCHANGED <<pmText, pmEncoding, pmBack>>
    /\ UNCHANGED posOthers

\* position_to_offset of the position obtained.
PosBackward ==
    /\ pmPc = "forward"
    /\ pmPosition.ok
    /\ pmBack' = PositionToOffset(pmText, pmEncoding, pmPosition.row, pmPosition.col)
    /\ pmPc' = "done"
    /\ UNCHANGED <<pmText, pmEncoding, pmOffset, pmPosition>>
    /\ UNCHANGED posOthers

PosNext == PosForward \/ PosBackward

(***************************************************************************)
(* document.rs: the links of a Document.                                   *)
(*                                                                         *)
(* The Markdown parser is a library; of its grammar the model keeps the    *)
(* inline link: "[", a label, "]", "(", at most one line ending, a         *)
(* destination and ")".  Document::parse records a link only when its      *)
(* label is a single run of text, which a line ending inside the label     *)
(* would split.                                                            *)
(***************************************************************************)
\* The chars that end the destination of a link.
DestEnds == {"[", "]", "(", ")", Newline, " "}

\* The chars that end the label of a link.
LabelEnds == {"[", "]", Newline}

\* The least index k >= i of text with text[k] in chars, or Len(text) + 1.
FirstIndex(text, i, chars) ==
    LET hits == {k \in i..Len(text) : text[k] \in chars}
    IN  IF hits = {} THEN Len(text) + 1
        ELSE CHOOSE k \in hits : \A j \in hits : k <= j

NoLink == [found |-> FALSE]

\* The inline link that starts at character i, with the indices of its
\* first and last character.
InlineLinkAt(text, i) ==
    IF text[i] # "[" THEN NoLink
    ELSE LET close == FirstIndex(text, i + 1, LabelEnds)
         IN  IF \/ close > Len(text) \/ text[close] # "]" \/ close = i + 1
                \/ close + 1 > Len(text) \/ text[close + 1] # "("
             THEN NoLink
             ELSE LET d0 == close + 2
                      d1 == IF d0 <= Len(text) /\ text[d0] = Newline THEN d0 + 1 ELSE d0
                      e == FirstIndex(text, d1, DestEnds)
                  IN  IF e > Len(text) \/ text[e] # ")" THEN NoLink
                      ELSE [found |-> TRUE, first |-> i, last |-> e,
                            text |-> SubSeq(text, i + 1, close - 1),
                            url |-> SubSeq(text, d1, e - 1)]

\* Pos::new: both ends of the byte range go through offset_to_position.
PosNew(start, end, text, encoding) ==
    LET from == OffsetToPosition(text, encoding, start)
        to == OffsetToPosition(text, encoding, end)
    IN  IF ~from.ok THEN from
        ELSE IF ~to.ok THEN to
        ELSE [ok |-> TRUE,
              pos |-> [offset_range |-> <<start, end>>,
                       row_range |-> <<from.row, to.row>>,
                       col_range |-> <<from.col, to.col>>]]

\* Link::new.
LinkNew(text, url, position) == [text |-> text, url |-> url, position |-> position]

\* Document::parse from character i on, with the links inserted so far.  A
\* position error ends the parse with the links before it (the `?` in the
\* loop); a panic of the position mapper unwinds through Document::new.
RECURSIVE ParseFrom(_, _, _)
ParseFrom(text, i, links) ==
    IF i > Len(text) THEN [outcome |-> "Ok", links |-> links]
    ELSE LET l == InlineLinkAt(text, i)
         IN  IF ~l.found THEN ParseFrom(text, i + 1, links)
             ELSE LET position == PosNew(ByteStart(text, l.first),
                                         ByteStart(text, l.last + 1), text, "utf-16")
                  IN  IF position.ok
                      THEN ParseFrom(text, l.last + 1,
                                     links \cup {LinkNew(l.text, l.url, position.pos)})
                      ELSE IF position.err = "Panic"
                           THEN [outcome |-> "Panic", links |-> links]
                           ELSE [outcome |-> "Err", links |-> links]

DocumentParse(text) == ParseFrom(text, 1, {})

\* The closure of Document::get_link_at (the same test is written out in
\* goto_definition and hover).
LinkMatches(link, row, col) ==
    /\ link.position.row_range[1] <= row
    /\ link.position.row_range[2] >= row
    /\ link.position.col_range[1] <= col
    /\ link.position.col_range[2] >= col

\* Document::get_link_at: `find` over the DashSet returns the first match
\* in the set's iteration order, which is any of the matches.
GetLinkAt(links, row, col) ==
    LET hits == {l \in links : LinkMatches(l, row, col)}
    IN  IF hits = {} THEN {None} ELSE {Some(l) : l \in hits}

(***************************************************************************)
(* The inputs of the document specification: the texts made of at most     *)
(* MaxPieces pieces, a piece being a letter, a wide scalar, a line ending, *)
(* a link on one line or a link whose destination is on the next line.     *)
(***************************************************************************)
MaxPieces == 3

PieceLink == <<"[", "a", "]", "(", "b", ")">>

PieceLinkWrapped == <<"[", "a", "]", "(", Newline, "b", ")">>

Pieces == {<<"a">>, <<"G">>, <<Newline>>, PieceLink, PieceLinkWrapped}

RECURSIVE Concat(_)
Concat(ss) == IF ss = <<>> THEN <<>> ELSE Head(ss) \o Concat(Tail(ss))

DocTexts == {Concat(ps) : ps \in UNION {[1..n -> Pieces] : n \in 0..MaxPieces}}

DocIdle ==
    /\ docPc = "idle" /\ docText = <<>> /\ docLinks = {}
    /\ docRow = 0 /\ docCol = 0 /\ docFound = None

DocInit ==
    /\ docPc = "new"
    /\ docText \in DocTexts
    /\ docLinks = {} /\ docRow = 0 /\ docCol = 0 /\ docFound = None

\* Document::new on a file that holds docText.
DocNew ==
    /\ docPc = "new"
    /\ LET parsed == DocumentParse(docText)
       IN  /\ docLinks' = parsed.links
           /\ docPc' = IF parsed.outcome = "Panic" THEN "panicked" ELSE "ready"
    /\ UNCHANGED <<docText, docRow, docCol, docFound>>
    /\ UNCHANGED docOthers

\* get_link_at for a cursor position of the document.
DocGetLinkAt ==
    /\ docPc = "ready"
    /\ \E row \in 0..(Len(LineStarts(docText)) + 1), col \in 0..(Len(docText) + 1) :
          /\ docRow' = row
          /\ docCol' = col
          /\ docFound' \in GetLinkAt(docLinks, row, col)
    /\ docPc' = "found"
    /\ UNCHANGED <<docText, docLinks>>
    /\ UNCHANGED docOthers

DocNext == DocNew \/ DocGetLinkAt

(***************************************************************************)
(* link.rs: the resolution of a link against a base directory.             *)
(***************************************************************************)
IsAlpha(c) == \E i \in 1..Len(Letters) : Letters[i] = c \/ c \in {"m", "t", "x", "p"}

\* url::Url::parse(url) is Ok or an error other than
\* RelativeUrlWithoutBase when the string starts with a scheme and ":".
UrlHasScheme(url) ==
    \E k \in 2..Len(url) :
        /\ url[k] = ":"
        /\ IsAlpha(url[1])
        /\ \A j \in 1..(k - 1) : IsAlpha(url[j]) \/ url[j] \in {"+", "-", "."}

\* Link::to_markdown_path.
LinkToMarkdownPath(url, base_path) ==
    IF ~UrlHasScheme(url)
    THEN LET p == MarkdownPathNew(base_path, url)
         IN  IF p.ok THEN Some(p) ELSE None
    ELSE None

(***************************************************************************)
(* rank.rs: rank().                                                        *)
(*                                                                         *)
(* The ranks are f32 in the code; the model computes them as exact         *)
(* rationals, rkRank[i] / rkDen, so that what it states about them is what *)
(* the arithmetic of the loop gives before rounding.                       *)
(***************************************************************************)
VaultDir == StrV

\* The path of the i-th Document, as Vault::new builds it from the entry of
\* read_dir: Document::new(base_path, base_path.join(file_name)).
DocumentPaths ==
    [i \in 1..Len(Letters) |-> MarkdownPathNew(VaultDir, Join(VaultDir, NameOf(i)))]

DocumentPath(i) == DocumentPaths[i]

\* idx: the index of every document by its path.
RankIdx(num_docs) == {[key |-> DocumentPath(i), value |-> i] : i \in 1..num_docs}

\* D = 0.85.
DampNum == 17
DampDen == 20

\* TOLERANCE = 0.0000001, the tol that main passes.
TolDen == 10000000

\* Euclid's algorithm.
Gcd(a, b) ==
    LET Euclid[x \in Nat, y \in Nat] == IF y = 0 THEN x ELSE Euclid[y, x % y]
    IN  Euclid[a, b]

Lcm(a, b) == (a \div Gcd(a, b)) * b

\* The least common multiple of the positive elements of a sequence.
LcmOfPositive(s) ==
    LET Fold[i \in 0..Len(s)] ==
            IF i = 0 THEN 1
            ELSE IF s[i] > 0 THEN Lcm(s[i], Fold[i - 1])
            ELSE Fold[i - 1]
    IN  Fold[Len(s)]

\* The greatest common divisor of the elements of a sequence.
GcdSeq(s) ==
    LET Fold[i \in 0..Len(s)] == IF i = 0 THEN 0 ELSE Gcd(s[i], Fold[i - 1])
    IN  Fold[Len(s)]

Abs(x) == IF x < 0 THEN -x ELSE x

\* A mutant of Teleport: (1 - D), as in the formula of the doc comment.
TeleportUndivided(num_docs) == [num |-> DampDen - DampNum, den |-> DampDen]

\* teleport = (1.0 - D) / num_docs.
Teleport(num_docs) == [num |-> DampDen - DampNum, den |-> DampDen * num_docs]

\* A mutant of DanglingMass: the mass of the dangling nodes is dropped.
DanglingMassDropped(rank, outdeg) == 0

\* dangling_mass: the sum of the ranks of the documents without outgoing
\* edge (its numerator over the ranks' denominator).
DanglingMass(rank, outdeg) ==
    SumSeq([i \in 1..Len(rank) |-> IF outdeg[i] = 0 THEN rank[i] ELSE 0])

\* One iteration of the loop on rank = rank[i] / den: next and delta, over
\* the denominator den * D's denominator * num_docs * lcm(outdeg).  With no
\* document there is no element to compute and delta is the empty sum.
RankIteration(rank, den, inbound, outdeg) ==
    LET n == Len(rank)
    IN  IF n = 0 THEN [next |-> <<>>, den |-> 1, delta |-> 0]
        ELSE
        LET l == LcmOfPositive(outdeg)
            den2 == den * DampDen * n * l
            teleport == Teleport(n)
            dangling_mass == DanglingMass(rank, outdeg)
            \* base = teleport + D * dangling_mass / num_docs
            base == teleport.num * (den2 \div teleport.den) + DampNum * dangling_mass * l
            \* contrib = sum of rank[src] / outdeg[src] over inbound[dst]
            contrib(dst) ==
                SumSeq([k \in 1..Len(inbound[dst]) |->
                           rank[inbound[dst][k]] * (l \div outdeg[inbound[dst][k]])])
            next == [dst \in 1..n |-> base + DampNum * n * contrib(dst)]
            delta == SumSeq([i \in 1..n |-> Abs(rank[i] * (den2 \div den) - next[i])])
        IN  [next |-> next, den |-> den2, delta |-> delta]

\* A loop without its break: no delta is below the tolerance.
BelowTolNever(num, den) == FALSE

\* delta < tol, for delta = num / den and tol = 1 / TolDen.
BelowTol(num, den) == num <= (den - 1) \div TolDen

\* The same ranks over the least common denominator.
Normalised(rank, den) ==
    LET g == Gcd(GcdSeq(rank), den)
    IN  IF g <= 1 THEN [rank |-> rank, den |-> den]
        ELSE [rank |-> [i \in 1..Len(rank) |-> rank[i] \div g], den |-> den \div g]

(***************************************************************************)
(* The inputs of the rank specification: the first n notes of the vault    *)
(* directory, n <= MaxDocs, holding at most MaxLinks links between them.   *)
(* A link is a number that codes its source document and its URL: the      *)
(* absolute path of a note, as read_dir gives it, the path of a note       *)
(* relative to the vault, or the path of a file that does not exist.       *)
(***************************************************************************)
MaxDocs == 3

MaxLinks == 3

MaxIter == 2

\* The URLs a link may hold: the absolute path of every note of the
\* directory, the first note's path relative to the vault, and a path that
\* does not exist.
LinkUrls ==
    [u \in 1..(MaxDocs + 2) |->
        IF u <= MaxDocs THEN Join(VaultDir, NameOf(u))
        ELSE IF u = MaxDocs + 1 THEN <<".", "/">> \o NameOf(1)
        ELSE <<"x", ".", "m", "d">>]

\* link.to_markdown_path(base_path) for each of them.
LinkTargets == [u \in DOMAIN LinkUrls |-> LinkToMarkdownPath(LinkUrls[u], VaultDir)]

LinkSrc(code) == ((code - 1) \div Len(LinkUrls)) + 1

LinkUrlNo(code) == ((code - 1) % Len(LinkUrls)) + 1

\* The link lists of length k in documents 1..n, each list in ascending
\* order: the links of a document are a set, whose order is not kept.
RECURSIVE LinkLists(_, _)
LinkLists(n, k) ==
    IF k = 0 THEN {<<>>}
    ELSE UNION {{Append(s, c) : c \in (IF s = <<>> THEN 1 ELSE Last(s))..(n * Len(LinkUrls))} :
                   s \in LinkLists(n, k - 1)}

RankIdle ==
    /\ rkPc = "idle" /\ rkNumDocs = 0 /\ rkLinks = <<>> /\ rkNumIter = 0
    /\ rkInbound = <<>> /\ rkOutdeg = <<>> /\ rkRank = <<>> /\ rkDen = 1 /\ rkIter = 0

RankInit ==
    /\ rkPc = "build"
    /\ rkNumDocs \in 0..MaxDocs
    /\ rkLinks \in UNION {LinkLists(rkNumDocs, k) : k \in 0..MaxLinks}
    /\ rkNumIter \in {0, MaxIter}
    /\ rkInbound = <<>> /\ rkOutdeg = <<>> /\ rkRank = <<>> /\ rkDen = 1 /\ rkIter = 0

\* What `link.to_markdown_path(base_path)` and `idx.get(&target)` give for
\* a link with URL number u among num_docs documents: the index of a
\* document, or 0 for none.
IdxLookups ==
    [num_docs \in 0..MaxDocs |->
        [u \in DOMAIN LinkUrls |->
            LET target == LinkTargets[u]
            IN  IF ~target.some THEN {0}
                ELSE {IF r.some THEN r.val ELSE 0 :
                         r \in HashMapGet(RankIdx(num_docs), target.val)}]]

RankLookups(code, num_docs) == IdxLookups[num_docs][LinkUrlNo(code)]

\* The loop over the documents and their links: inbound and outdeg.
RankBuild ==
    /\ rkPc = "build"
    /\ \E dst \in [1..Len(rkLinks) -> 0..rkNumDocs] :
          /\ \A k \in 1..Len(rkLinks) : dst[k] \in RankLookups(rkLinks[k], rkNumDocs)
          /\ rkInbound' =
                [j \in 1..rkNumDocs |->
                    LET RECURSIVE Srcs(_)
                        Srcs(k) == IF k > Len(rkLinks) THEN <<>>
                                   ELSE IF dst[k] = j
                                        THEN <<LinkSrc(rkLinks[k])>> \o Srcs(k + 1)
                                        ELSE Srcs(k + 1)
                    IN  Srcs(1)]
          /\ rkOutdeg' =
                [i \in 1..rkNumDocs |->
                    Cardinality({k \in 1..Len(rkLinks) :
                                    dst[k] # 0 /\ LinkSrc(rkLinks[k]) = i})]
    /\ rkPc' = "built"
    /\ UNCHANGED <<rkNumDocs, rkLinks, rkNumIter, rkRank, rkDen, rkIter>>
    /\ UNCHANGED rankOthers

\* rank = vec![1.0 / num_docs; num_docs].
RankStart ==
    /\ rkPc = "built"
    /\ rkRank' = [i \in 1..rkNumDocs |-> 1]
    /\ rkDen' = IF rkNumDocs = 0 THEN 1 ELSE rkNumDocs
    /\ rkPc' = IF rkNumIter = 0 THEN "done" ELSE "loop"
    /\ UNCHANGED <<rkNumDocs, rkLinks, rkNumIter, rkInbound, rkOutdeg, rkIter>>
    /\ UNCHANGED rankOthers

\* One iteration of `for _ in 0..num_iter`, with its break.
RankIterate ==
    /\ rkPc = "loop"
    /\ \E it \in {RankIteration(rkRank, rkDen, rkInbound, rkOutdeg)} :
          \E nx \in {Normalised(it.next, it.den)} :
              /\ rkRank' = nx.rank
              /\ rkDen' = nx.den
              /\ rkIter' = rkIter + 1
              /\ rkPc' = IF BelowTol(it.delta, it.den) \/ rkIter + 1 >= rkNumIter
                          THEN "done" ELSE "loop"
    /\ UNCHANGED <<rkNumDocs, rkLinks, rkNumIter, rkInbound, rkOutdeg>>
    /\ UNCHANGED rankOthers

RankNext == RankBuild \/ RankStart \/ RankIterate

(***************************************************************************)
(* lsp.rs: the Backend.                                                    *)
(*                                                                         *)
(* A ropey::Rope is the sequence of its chars; char indices, line indices  *)
(* and columns count from 0 as in the code.                                *)
(***************************************************************************)
\* Rope::len_lines: a rope has one line more than it has line endings.
RopeLenLines(rope) == Cardinality({i \in 1..Len(rope) : rope[i] = Newline}) + 1

\* Rope::line_to_char, for line <= len_lines: the char index at which the
\* line starts, len_chars for the line one past the last.
RopeLineToChar(rope, line) ==
    IF line = 0 THEN 0
    ELSE IF line >= RopeLenLines(rope) THEN Len(rope)
    ELSE CHOOSE i \in 1..Len(rope) :
             /\ rope[i] = Newline
             /\ Cardinality({j \in 1..i : rope[j] = Newline}) = line

\* Rope::line, for line < len_lines: the chars of the line, its line ending
\* included.
RopeLine(rope, line) ==
    SubSeq(rope, RopeLineToChar(rope, line) + 1, RopeLineToChar(rope, line + 1))

\* Rope::char_to_line: the line endings before the char index.
RopeCharToLine(rope, char_idx) ==
    Cardinality({i \in 1..Min(char_idx, Len(rope)) : rope[i] = Newline})

\* RopeSlice::try_utf16_cu_to_char: None past the end of the slice; inside a
\* char of two code units, the index of that char.
TryUtf16CuToChar(slice, col) ==
    IF col > Utf16Count(slice) THEN None
    ELSE Some(Cardinality({k \in 1..Len(slice) : Utf16Count(SubSeq(slice, 1, k)) <= col}))

\* Rope::remove(s..e), for s <= e <= len_chars.
RopeRemove(rope, s, e) == SubSeq(rope, 1, s) \o SubSeq(rope, e + 1, Len(rope))

\* Rope::insert(s, text).
RopeInsert(rope, s, text) == SubSeq(rope, 1, s) \o text \o SubSeq(rope, s + 1, Len(rope))

\* The position_to_offset of did_change.
RopePositionToOffset(rope, line, col) ==
    IF line = RopeLenLines(rope) /\ col = 0 THEN Some(Len(rope))
    ELSE IF line < RopeLenLines(rope)
         THEN LET col_offset == TryUtf16CuToChar(RopeLine(rope, line), col)
              IN  IF col_offset.some
                  THEN Some(RopeLineToChar(rope, line) + col_offset.val)
                  ELSE None
         ELSE None

\* lsp_pos_to_char: -1 stands for the panic of Rope::line_to_char and
\* Rope::line on a line past the rope's last.
LspPosToChar(rope, line, character) ==
    IF line >= RopeLenLines(rope) THEN -1
    ELSE LET line_start_char == RopeLineToChar(rope, line)
             l == RopeLine(rope, line)
             hits == {i \in 0..(Len(l) - 1) : Utf16Count(SubSeq(l, 1, i)) = character}
         IN  IF hits = {} THEN line_start_char + Len(l)
             ELSE line_start_char + (CHOOSE i \in hits : \A j \in hits : i <= j)

\* char_idx_to_position.
CharIdxToPosition(rope, char_idx) ==
    LET line == RopeCharToLine(rope, char_idx)
        line_start_char == RopeLineToChar(rope, line)
    IN  <<line, Utf16Count(SubSeq(rope, line_start_char + 1, char_idx))>>

(***************************************************************************)
(* The vault the Backend is built with: the notes of the directory, loaded *)
(* by Vault::new before the server starts, with the links their files held *)
(* at that time.  a.md holds a link to b.md on its second line.            *)
(***************************************************************************)
VaultNotes ==
    {Join(VaultDir, NameOf(i)) : i \in 1..Len(Letters)} \cup {Join(VaultDir, NameSp)}

\* fs::read_to_string of a note.
FileText ==
    [p \in VaultNotes |->
        IF p = Join(VaultDir, NameA)
        THEN <<Newline, "[", "a", "]", "(">> \o NameB \o <<")">>
        ELSE <<"b">>]

\* Vault.documents: every note by the MarkdownPath of its directory entry.
VaultDocuments ==
    {[key |-> MarkdownPathNew(VaultDir, p), value |-> p] : p \in VaultNotes}

\* document.links() of a note of the vault.
VaultLinks == [p \in VaultNotes |-> DocumentParse(FileText[p]).links]

\* Vault::resolve_link.
VaultResolveLink(link) == LinkToMarkdownPath(link.url, VaultDir)

\* Path::file_stem of a note: its name without ".md".
FileStem(p) == LET name == Last(Components(p)) IN SubSeq(name, 1, Len(name) - 3)

\* frizbee::match_list is a library: the model keeps that a name matches a
\* query whose chars occur in it, in their order.
RECURSIVE IsSubsequence(_, _)
IsSubsequence(query, name) ==
    IF query = <<>> THEN TRUE
    ELSE IF name = <<>> THEN FALSE
    ELSE IF Head(query) = Head(name) THEN IsSubsequence(Tail(query), Tail(name))
    ELSE IsSubsequence(query, Tail(name))

(***************************************************************************)
(* The answers of the requests.                                            *)
(***************************************************************************)
Answer(result, link, rope, range, items) ==
    [result |-> result, link |-> link, rope |-> rope, range |-> range, items |-> items]

NoRange == <<0, 0, 0, 0>>

OkNone(rope) == Answer("None", None, rope, NoRange, 0)

ServerError == Answer("ServerError", None, <<>>, NoRange, 0)

Panicked == Answer("Panic", None, <<>>, NoRange, 0)

\* The search of completion goes back over at most 200 chars.
ScanLimit == 200

\* The chars the loop of completion may visit, from the cursor back.
ScanWindow(cursor_char) ==
    (IF cursor_char > ScanLimit THEN cursor_char - ScanLimit ELSE 0)..(cursor_char - 1)

\* The loop finds its trigger at i: a "[" with a "[" before it.
ScanFinds(rope, i) == rope[i + 1] = "[" /\ i > 0 /\ rope[i] = "["

\* A scan that goes on over "]" and stops at a newline only.
CompletionScanOverBracket(rope, cursor_char) ==
    LET ends == {i \in ScanWindow(cursor_char) :
                    rope[i + 1] = Newline \/ ScanFinds(rope, i)}
    IN  IF ends = {} THEN None
        ELSE LET i == CHOOSE i \in ends : \A j \in ends : j <= i
             IN  IF rope[i + 1] = Newline THEN None ELSE Some(i - 1)

\* The loop of completion that looks for "[[" before the cursor: the char
\* index of the first "[", if it is found.  The loop goes down from
\* cursor_char - 1 and ends at the first i, the greatest, where it breaks.
CompletionScan(rope, cursor_char) ==
    LET ends == {i \in ScanWindow(cursor_char) :
                    rope[i + 1] \in {"]", Newline} \/ ScanFinds(rope, i)}
    IN  IF ends = {} THEN None
        ELSE LET i == CHOOSE i \in ends : \A j \in ends : j <= i
             IN  IF rope[i + 1] \in {"]", Newline} THEN None ELSE Some(i - 1)

\* The query of completion: the chars after "[[" up to the cursor.
CompletionQuery(rope, start_char, cursor_char) ==
    SubSeq(rope, start_char + 3, cursor_char)

\* start_char and query after the loop of completion.
CompletionTrigger(rope, cursor_char) ==
    LET start == CompletionScan(rope, cursor_char)
    IN  IF start.some
        THEN [start_char |-> start.val,
              query |-> Some(CompletionQuery(rope, start.val, cursor_char))]
        ELSE [start_char |-> 0, query |-> None]

\* An end that takes two chars after the cursor whatever they are.
CompletionEndCharAnyTwo(rope, cursor_char) ==
    IF cursor_char + 2 <= Len(rope) THEN cursor_char + 2 ELSE cursor_char

\* end_char of completion: the cursor, or the end of the "]]" that stands
\* right after it.
CompletionEndChar(rope, cursor_char) ==
    IF /\ cursor_char + 2 <= Len(rope)
       /\ SubSeq(rope, cursor_char + 1, cursor_char + 2) = <<"]", "]">>
    THEN cursor_char + 2 ELSE cursor_char

\* completion, from the rope it has cloned to the answer it holds when it
\* awaits its log message (or returns).
CompletionAnswer(rope, line, character) ==
    LET cursor_char == LspPosToChar(rope, line, character)
    IN  IF cursor_char < 0 THEN Panicked
        ELSE LET start == CompletionScan(rope, cursor_char)
             IN  IF ~start.some THEN OkNone(rope)
                 ELSE LET start_char == start.val
                          query == CompletionQuery(rope, start_char, cursor_char)
                          matches == {p \in VaultNotes : IsSubsequence(query, FileStem(p))}
                          end_char == CompletionEndChar(rope, cursor_char)
                      IN  IF matches = {} THEN OkNone(rope)
                          ELSE Answer("Items", None, rope,
                                      CharIdxToPosition(rope, start_char)
                                          \o CharIdxToPosition(rope, end_char),
                                      Cardinality(matches))

LinkRange(link) ==
    <<link.position.row_range[1], link.position.col_range[1],
      link.position.row_range[2], link.position.col_range[2]>>

\* goto_definition and hover after Url::to_file_path: the answers they may
\* give.  Both read the document of the vault and the links it was loaded
\* with; hover reads the file of the destination, too.
\* The same, once the document is found in the vault: the search for the
\* link at the cursor, its resolution and the answer.
LinkAnswersOf(links, row, col, result) ==
    {IF ~link.some THEN OkNone(<<>>)
     ELSE IF ~VaultResolveLink(link.val).some
          THEN Answer("ServerError", link, <<>>, NoRange, 0)
     ELSE Answer(result, link, <<>>, LinkRange(link.val), 0) :
        link \in GetLinkAt(links, row, col)}

LinkAnswers(path, row, col, result) ==
    LET mdpath == MarkdownPathNew(VaultDir, path)
    IN  IF ~mdpath.ok THEN {ServerError}
        ELSE UNION {
               IF ~document.some THEN {ServerError}
               ELSE LinkAnswersOf(VaultLinks[document.val], row, col, result) :
               document \in HashMapGet(VaultDocuments, mdpath)}

(***************************************************************************)
(* The messages of the client.  The server gives every message to its      *)
(* handler in the order of arrival, and a handler runs to its first await  *)
(* before the handler of the next message starts; from there the handlers  *)
(* in flight proceed in any order.  An action that receives a message runs *)
(* its handler up to that first await.  An operation on an entry of the    *)
(* DashMap waits while another handler holds the entry.  A panic of a      *)
(* handler unwinds through Server::serve and Backend::run and ends the     *)
(* process.                                                                *)
(***************************************************************************)
MaxMsgs == 3

\* The Urls of the client: a note of the vault, and a file that does not
\* exist.
Uris ==
    <<[file |-> TRUE, path |-> Join(VaultDir, NameA)],
      [file |-> TRUE, path |-> Join(VaultDir, <<"x", ".", "m", "d">>)]>>

\* The client edits the note; it asks about both Urls.
EditedUris == {1}

\* The texts a didOpen may carry.
OpenTexts == {<<"a", "b">>, <<"[", "[", "a">>}

Full(text) == [full |-> TRUE, start |-> <<0, 0>>, end |-> <<0, 0>>, text |-> text]

Splice(start, end, text) == [full |-> FALSE, start |-> start, end |-> end, text |-> text]

\* The batches a didChange may carry: a whole new text; two splices of the
\* first line; a whole new text, a splice on a line that does not exist and
\* a splice whose start lies after its end.
ChangeBatches ==
    << <<Full(<<"b">>)>>,
       <<Splice(<<0, 0>>, <<0, 1>>, <<"b">>), Splice(<<0, 1>>, <<0, 2>>, <<"c">>)>>,
       <<Full(<<"b">>), Splice(<<3, 0>>, <<3, 0>>, <<"a">>), Splice(<<0, 1>>, <<0, 0>>, <<>>)>> >>

\* The cursor positions of the requests: on the link of a.md and after
\* "[[a" on the first line; on a second line.
Cursors == {<<0, 3>>, <<1, 1>>}

Notifications == {"didOpen", "didChange", "didClose"}

Requests == {"completion", "definition", "hover"}

Free ==
    [pc |-> "free", kind |-> "none", uri |-> 0, text |-> <<>>, batch |-> 0, k |-> 0,
     at |-> 0, row |-> 0, col |-> 0, ans |-> OkNone(<<>>),
     absent |-> FALSE, afterChange |-> FALSE, stable |-> FALSE]

NoResponse ==
    [kind |-> "none", uri |-> 0, row |-> 0, col |-> 0, ans |-> OkNone(<<>>), live |-> None,
     absent |-> FALSE, afterChange |-> FALSE, stable |-> FALSE]

LspInit ==
    /\ lspDocuments = [u \in DOMAIN Uris |-> None]
    /\ lspGuard = [u \in DOMAIN Uris |-> 0]
    /\ lspHandlers = [h \in 1..MaxMsgs |-> Free]
    /\ lspReceived = 0
    /\ lspResponse = NoResponse
    /\ lspCrashed = FALSE
    /\ lspCommitted = [u \in DOMAIN Uris |-> None]
    /\ lspTorn = FALSE
    /\ lspExpected = [u \in DOMAIN Uris |-> None]
    /\ lspLastOC = [u \in DOMAIN Uris |-> "none"]
    /\ lspChanged = [u \in DOMAIN Uris |-> FALSE]

LspIdle == LspInit

\* The loop of did_change over a batch, run without interruption.
RECURSIVE ApplyChanges(_, _)
ApplyChanges(rope, changes) ==
    IF changes = <<>> THEN [ok |-> TRUE, rope |-> rope]
    ELSE LET c == Head(changes)
             s == RopePositionToOffset(rope, c.start[1], c.start[2])
             e == RopePositionToOffset(rope, c.end[1], c.end[2])
         IN  IF c.full THEN ApplyChanges(c.text, Tail(changes))
             ELSE IF ~(s.some /\ e.some) THEN ApplyChanges(rope, Tail(changes))
             ELSE IF s.val > e.val THEN [ok |-> FALSE, rope |-> rope]
             ELSE ApplyChanges(RopeInsert(RopeRemove(rope, s.val, e.val), s.val, c.text),
                               Tail(changes))

CanReceive == ~lspCrashed /\ lspReceived < MaxMsgs

\* The handler of the message that arrives now.
NewHandler(kind, u) == [Free EXCEPT !.pc = "log", !.kind = kind, !.uri = u]

\* A notification for u has arrived: the requests in flight on u no longer
\* have the store of u to themselves.
Unsettled(u) ==
    [h \in 1..MaxMsgs |->
        IF lspHandlers[h].uri = u /\ lspHandlers[h].kind \in Requests
        THEN [lspHandlers[h] EXCEPT !.stable = FALSE]
        ELSE lspHandlers[h]]

\* No notification for u is in flight.
Settled(u) ==
    \A h \in 1..MaxMsgs : ~(lspHandlers[h].uri = u /\ lspHandlers[h].kind \in Notifications)

NewRequest(kind, u, cursor) ==
    [NewHandler(kind, u) EXCEPT !.row = cursor[1], !.col = cursor[2],
                                !.absent = ~lspDocuments[u].some,
                                !.afterChange = lspChanged[u],
                                !.stable = Settled(u)]

\* The response to the request of handler record hd.
Response(hd, ans) ==
    [kind |-> hd.kind, uri |-> hd.uri, row |-> hd.row, col |-> hd.col, ans |-> ans,
     live |-> lspDocuments[hd.uri],
     absent |-> hd.absent /\ ~lspDocuments[hd.uri].some,
     afterChange |-> hd.afterChange, stable |-> hd.stable]

\* did_open to its await: the rope is built, the log message is sent.
DidOpen ==
    /\ CanReceive
    /\ \E u \in EditedUris, text \in OpenTexts :
          /\ lspHandlers' = [Unsettled(u) EXCEPT
                                ![lspReceived + 1] =
                                    [NewHandler("didOpen", u) EXCEPT !.text = text]]
          /\ lspExpected' = [lspExpected EXCEPT ![u] = Some(text)]
          /\ lspLastOC' = [lspLastOC EXCEPT ![u] = "open"]
    /\ lspReceived' = lspReceived + 1
    /\ UNCHANGED <<lspDocuments, lspGuard, lspResponse, lspCrashed, lspCommitted, lspTorn,
                   lspChanged>>
    /\ UNCHANGED lspOthers

\* did_open after its await: documents.insert(uri, rope).
DidOpenInsert ==
    /\ ~lspCrashed
    /\ \E h \in 1..MaxMsgs :
          LET hd == lspHandlers[h]
          IN  /\ hd.kind = "didOpen" /\ hd.pc = "log"
              /\ lspGuard[hd.uri] = 0
              /\ lspTorn' = (lspTorn \/ lspDocuments[hd.uri] # lspCommitted[hd.uri])
              /\ lspDocuments' = [lspDocuments EXCEPT ![hd.uri] = Some(hd.text)]
              /\ lspCommitted' = [lspCommitted EXCEPT ![hd.uri] = Some(hd.text)]
              /\ lspHandlers' = [lspHandlers EXCEPT ![h] = Free]
    /\ UNCHANGED <<lspGuard, lspReceived, lspResponse, lspCrashed, lspExpected, lspLastOC,
                   lspChanged>>
    /\ UNCHANGED lspOthers

\* did_change to its await.
DidChange ==
    /\ CanReceive
    /\ \E u \in EditedUris, b \in DOMAIN ChangeBatches :
          /\ lspHandlers' = [Unsettled(u) EXCEPT
                                ![lspReceived + 1] =
                                    [NewHandler("didChange", u) EXCEPT !.batch = b, !.k = 1]]
          /\ lspExpected' =
                IF lspExpected[u].some
                THEN [lspExpected EXCEPT
                         ![u] = Some(ApplyChanges(lspExpected[u].val, ChangeBatches[b]).rope)]
                ELSE lspExpected
    /\ lspReceived' = lspReceived + 1
    /\ UNCHANGED <<lspDocuments, lspGuard, lspResponse, lspCrashed, lspCommitted, lspTorn,
                   lspLastOC, lspChanged>>
    /\ UNCHANGED lspOthers

\* did_change after its await: documents.get_mut(&uri), which returns at
\* once when there is no entry.
DidChangeGetMut ==
    /\ ~lspCrashed
    /\ \E h \in 1..MaxMsgs :
          LET hd == lspHandlers[h]
          IN  /\ hd.kind = "didChange" /\ hd.pc = "log"
              /\ lspGuard[hd.uri] = 0
              /\ lspTorn' = (lspTorn \/ lspDocuments[hd.uri] # lspCommitted[hd.uri])
              /\ IF lspDocuments[hd.uri].some
                 THEN /\ lspGuard' = [lspGuard EXCEPT ![hd.uri] = h]
                      /\ lspHandlers' = [lspHandlers EXCEPT ![h].pc = "apply", ![h].at = -1]
                 ELSE /\ lspGuard' = lspGuard
                      /\ lspHandlers' = [lspHandlers EXCEPT ![h] = Free]
    /\ UNCHANGED <<lspDocuments, lspReceived, lspResponse, lspCrashed, lspCommitted,
                   lspExpected, lspLastOC, lspChanged>>
    /\ UNCHANGED lspOthers

\* A mutant of EntryHeldForBatch: get_mut is taken anew for every change.
EntryReleasedBetweenChanges == FALSE

\* The RefMut that get_mut returns lives for the whole `for` loop: the entry
\* stays held from one change of the batch to the next.
EntryHeldForBatch == TRUE

\* The store, guard and handler after handler h has finished change k of
\* its batch and left `rope` in the entry.
ChangeFinished(h, rope) ==
    LET hd == lspHandlers[h]
        last == hd.k = Len(ChangeBatches[hd.batch])
    IN  /\ lspDocuments' = [lspDocuments EXCEPT ![hd.uri] = Some(rope)]
        /\ lspCommitted' = IF last THEN [lspCommitted EXCEPT ![hd.uri] = Some(rope)]
                           ELSE lspCommitted
        /\ lspChanged' = IF last THEN [lspChanged EXCEPT ![hd.uri] = TRUE] ELSE lspChanged
        /\ lspGuard' = IF last \/ ~EntryHeldForBatch THEN [lspGuard EXCEPT ![hd.uri] = 0]
                       ELSE lspGuard
        /\ lspHandlers' =
              IF last THEN [lspHandlers EXCEPT ![h] = Free]
              ELSE [lspHandlers EXCEPT
                       ![h].k = hd.k + 1, ![h].at = -1,
                       ![h].pc = IF EntryHeldForBatch THEN "apply" ELSE "log"]

\* One step of the loop of did_change on the entry it holds: the whole of a
\* full change or of a change whose positions are not in the rope, else
\* rope.remove(s..e), else rope.insert(s, &text).
DidChangeApply ==
    /\ ~lspCrashed
    /\ \E h \in 1..MaxMsgs :
          LET hd == lspHandlers[h]
          IN  /\ hd.kind = "didChange" /\ hd.pc = "apply"
              /\ LET rope == lspDocuments[hd.uri].val
                     c == ChangeBatches[hd.batch][hd.k]
                     s == RopePositionToOffset(rope, c.start[1], c.start[2])
                     e == RopePositionToOffset(rope, c.end[1], c.end[2])
                 IN  IF c.full THEN ChangeFinished(h, c.text)
                     ELSE IF hd.at >= 0 THEN ChangeFinished(h, RopeInsert(rope, hd.at, c.text))
                     ELSE IF ~(s.some /\ e.some) THEN ChangeFinished(h, rope)
                     ELSE /\ s.val <= e.val
                          /\ lspDocuments' =
                                [lspDocuments EXCEPT
                                    ![hd.uri] = Some(RopeRemove(rope, s.val, e.val))]
                          /\ lspHandlers' = [lspHandlers EXCEPT ![h].at = s.val]
                          /\ UNCHANGED <<lspGuard, lspCommitted, lspChanged>>
    /\ UNCHANGED <<lspReceived, lspResponse, lspCrashed, lspTorn, lspExpected, lspLastOC>>
    /\ UNCHANGED lspOthers

\* rope.remove(s..e) panics when s lies after e.
DidChangePanic ==
    /\ ~lspCrashed
    /\ \E h \in 1..MaxMsgs :
          LET hd == lspHandlers[h]
          IN  /\ hd.kind = "didChange" /\ hd.pc = "apply" /\ hd.at < 0
              /\ LET rope == lspDocuments[hd.uri].val
                     c == ChangeBatches[hd.batch][hd.k]
                     s == RopePositionToOffset(rope, c.start[1], c.start[2])
                     e == RopePositionToOffset(rope, c.end[1], c.end[2])
                 IN  ~c.full /\ s.some /\ e.some /\ s.val > e.val
    /\ lspCrashed' = TRUE
    /\ UNCHANGED <<lspDocuments, lspGuard, lspHandlers, lspReceived, lspResponse,
                   lspCommitted, lspTorn, lspExpected, lspLastOC, lspChanged>>
    /\ UNCHANGED lspOthers

\* did_close to its await: documents.remove(&uri), then the log message.
DidClose ==
    /\ CanReceive
    /\ \E u \in EditedUris :
          /\ lspGuard[u] = 0
          /\ lspTorn' = (lspTorn \/ lspDocuments[u] # lspCommitted[u])
          /\ lspDocuments' = [lspDocuments EXCEPT ![u] = None]
          /\ lspCommitted' = [lspCommitted EXCEPT ![u] = None]
          /\ lspHandlers' = [Unsettled(u) EXCEPT ![lspReceived + 1] = NewHandler("didClose", u)]
          /\ lspExpected' = [lspExpected EXCEPT ![u] = None]
          /\ lspLastOC' = [lspLastOC EXCEPT ![u] = "close"]
    /\ lspReceived' = lspReceived + 1
    /\ UNCHANGED <<lspGuard, lspResponse, lspCrashed, lspChanged>>
    /\ UNCHANGED lspOthers

\* did_close after its await: it returns.
DidCloseReturn ==
    /\ ~lspCrashed
    /\ \E h \in 1..MaxMsgs :
          /\ lspHandlers[h].kind = "didClose" /\ lspHandlers[h].pc = "log"
          /\ lspHandlers' = [lspHandlers EXCEPT ![h] = Free]
    /\ UNCHANGED <<lspDocuments, lspGuard, lspReceived, lspResponse, lspCrashed,
                   lspCommitted, lspTorn, lspExpected, lspLastOC, lspChanged>>
    /\ UNCHANGED lspOthers

\* completion to its await or its return: documents.get(uri), the clone of
\* the rope, the scan, the candidates and the edit range.  It returns
\* Ok(None) when there is no entry.
Completion ==
    /\ CanReceive
    /\ \E u \in DOMAIN Uris, cursor \in Cursors :
          LET hd == NewRequest("completion", u, cursor)
              ans == IF lspDocuments[u].some
                     THEN CompletionAnswer(lspDocuments[u].val, cursor[1], cursor[2])
                     ELSE OkNone(<<>>)
          IN  /\ lspGuard[u] = 0
              /\ lspTorn' = (lspTorn \/ lspDocuments[u] # lspCommitted[u])
              /\ lspCrashed' = (ans.result = "Panic")
              /\ lspHandlers' =
                    IF ans.result = "Items"
                    THEN [lspHandlers EXCEPT ![lspReceived + 1] = [hd EXCEPT !.ans = ans]]
                    ELSE lspHandlers
              /\ lspResponse' = IF ans.result = "None" THEN Response(hd, ans) ELSE lspResponse
    /\ lspReceived' = lspReceived + 1
    /\ UNCHANGED <<lspDocuments, lspGuard, lspCommitted, lspExpected, lspLastOC, lspChanged>>
    /\ UNCHANGED lspOthers

\* completion after its await: Ok(Some(items)).
CompletionReturn ==
    /\ ~lspCrashed
    /\ \E h \in 1..MaxMsgs :
          LET hd == lspHandlers[h]
          IN  /\ hd.kind = "completion" /\ hd.pc = "log"
              /\ lspResponse' = Response(hd, hd.ans)
              /\ lspHandlers' = [lspHandlers EXCEPT ![h] = Free]
    /\ UNCHANGED <<lspDocuments, lspGuard, lspReceived, lspCrashed, lspCommitted, lspTorn,
                   lspExpected, lspLastOC, lspChanged>>
    /\ UNCHANGED lspOthers

\* goto_definition and hover to their first await: Url::to_file_path, whose
\* failure is answered at once.
LinkRequest(kind, u, cursor) ==
    LET hd == NewRequest(kind, u, cursor)
    IN  /\ IF Uris[u].file
           THEN /\ lspHandlers' = [lspHandlers EXCEPT ![lspReceived + 1] = hd]
                /\ lspResponse' = lspResponse
           ELSE /\ lspHandlers' = lspHandlers
                /\ lspResponse' = Response(hd, ServerError)
        /\ lspReceived' = lspReceived + 1

\* goto_definition and hover from their first await to their return.  What
\* they read between their awaits, the vault and the files, does not
\* change, so the steps between them are taken at once.
LinkReturn(h, result) ==
    LET hd == lspHandlers[h]
    IN  /\ hd.pc = "log"
        /\ \E ans \in LinkAnswers(Uris[hd.uri].path, hd.row, hd.col, result) :
              lspResponse' = Response(hd, ans)
        /\ lspHandlers' = [lspHandlers EXCEPT ![h] = Free]

GotoDefinition ==
    /\ CanReceive
    /\ \E u \in DOMAIN Uris, cursor \in Cursors : LinkRequest("definition", u, cursor)
    /\ UNCHANGED <<lspDocuments, lspGuard, lspCrashed, lspCommitted, lspTorn, lspExpected,
                   lspLastOC, lspChanged>>
    /\ UNCHANGED lspOthers

GotoDefinitionReturn ==
    /\ ~lspCrashed
    /\ \E h \in 1..MaxMsgs : lspHandlers[h].kind = "definition" /\ LinkReturn(h, "Location")
    /\ UNCHANGED <<lspDocuments, lspGuard, lspReceived, lspCrashed, lspCommitted, lspTorn,
                   lspExpected, lspLastOC, lspChanged>>
    /\ UNCHANGED lspOthers

\* hover reads the file of the destination, which exists: the link has
\* resolved to a canonical path.
Hover ==
    /\ CanReceive
    /\ \E u \in DOMAIN Uris, cursor \in Cursors : LinkRequest("hover", u, cursor)
    /\ UNCHANGED <<lspDocuments, lspGuard, lspCrashed, lspCommitted, lspTorn, lspExpected,
                   lspLastOC, lspChanged>>
    /\ UNCHANGED lspOthers

HoverReturn ==
    /\ ~lspCrashed
    /\ \E h \in 1..MaxMsgs : lspHandlers[h].kind = "hover" /\ LinkReturn(h, "Hover")
    /\ UNCHANGED <<lspDocuments, lspGuard, lspReceived, lspCrashed, lspCommitted, lspTorn,
                   lspExpected, lspLastOC, lspChanged>>
    /\ UNCHANGED lspOthers

LspNext ==
    \/ DidOpen \/ DidOpenInsert
    \/ DidChange \/ DidChangeGetMut \/ DidChangeApply \/ DidChangePanic
    \/ DidClose \/ DidCloseReturn
    \/ Completion \/ CompletionReturn
    \/ GotoDefinition \/ GotoDefinitionReturn
    \/ Hover \/ HoverReturn


(***************************************************************************)
(* search.rs: the BM25 Corpus.                                             *)
(*                                                                         *)
(* A document is the sequence of its words, the words being lower-case     *)
(* ASCII words separated by single spaces (as the tests of search.rs draw  *)
(* them), for which split_whitespace and the tokenizer give the same       *)
(* words.  The f32 values are exact rationals num / den; idf, a logarithm, *)
(* is kept as the argument of ln, and a score as the sum over the query's  *)
(* terms of ln(arg) * factor.                                              *)
(***************************************************************************)
Rat(n, d) == [num |-> n, den |-> d]

RatLess(a, b) == a.num * b.den < b.num * a.den

NaN == [kind |-> "nan"]

Num(n, d) == [kind |-> "num", num |-> n, den |-> d]

\* Corpus::tokenize: the words of the text, collected into a HashSet.
Tokenize(text) == {text[i] : i \in 1..Len(text)}

\* HashMap::extend: the entries of b are inserted into a, an entry of b
\* replacing the value a holds under the same key.
HashMapExtend(a, b) ==
    [k \in (DOMAIN a) \cup (DOMAIN b) |-> IF k \in DOMAIN b THEN b[k] ELSE a[k]]

\* A mutant of DfOfDocument: every occurrence of a term is counted.
DfOfDocumentPerOccurrence(doc) ==
    [term \in Tokenize(doc) |-> Cardinality({i \in 1..Len(doc) : doc[i] = term})]

\* The closure of Df::from for one document: every unique term counted
\* once in a map of the document's own.
DfOfDocument(doc) == [term \in Tokenize(doc) |-> 1]

\* Df::from: the maps of the documents reduced with HashMap::extend from the
\* empty map.  extend is associative, so every grouping that rayon's reduce
\* makes of the sequence gives this result.
RECURSIVE DfFrom(_)
DfFrom(docs) ==
    IF docs = <<>> THEN <<>>
    ELSE HashMapExtend(DfFrom(Front(docs)), DfOfDocument(Last(docs)))

\* Idf::from: for every term of df the argument of the logarithm,
\* (num_docs - num_occurrence + 0.5) / (num_occurrence + 0.5) + 1.0.
IdfFrom(num_docs, df) ==
    [term \in DOMAIN df |->
        Rat((2 * num_docs - 2 * df[term] + 1) + (2 * df[term] + 1), 2 * df[term] + 1)]

\* impl From<&Vec<String>> for Avgdl: the sum of the word counts over the
\* number of documents; 0.0 / 0.0 is NaN.
AvgdlFrom(docs) ==
    IF Len(docs) = 0 THEN NaN
    ELSE Num(SumSeq([i \in 1..Len(docs) |-> Len(docs[i])]), Len(docs))

\* K1 = 1.6 and B = 0.75.
K1Num == 8
K1Den == 5
BNum == 3
BDen == 4

\* norm = K1 * (1 - B + B * document_length / avgdl): a number, +inf where
\* avgdl is 0.0 and the document has words, NaN where avgdl is NaN or both
\* are 0.0.
ScoreNorm(document_length, avgdl) ==
    IF avgdl.kind = "nan" THEN NaN
    ELSE IF avgdl.num = 0
         THEN IF document_length = 0 THEN NaN ELSE [kind |-> "inf"]
    ELSE Num(K1Num * ((BDen - BNum) * avgdl.num + BNum * document_length * avgdl.den),
             K1Den * BDen * avgdl.num)

\* tf of Corpus::score: the terms come from tokenize, a HashSet, so each
\* term of the document is counted once.
TermFrequencies(document) == [term \in Tokenize(document) |-> 1]

\* (frequency * (K1 + 1)) / (frequency + norm).
ScoreFactor(frequency, norm) ==
    IF norm.kind = "nan" THEN NaN
    ELSE IF norm.kind = "inf" THEN Num(0, 1)
    ELSE Num(frequency * (K1Num + K1Den) * norm.den,
             K1Den * (frequency * norm.den + norm.num))

\* Corpus::score: for every term of the query its idf (Idf(0.0) = ln 1 where
\* the term is not in the map) and its factor.
CorpusScore(avgdl, idf, query, document) ==
    LET norm == ScoreNorm(Len(document), avgdl)
        tf == TermFrequencies(document)
    IN  [term \in Tokenize(query) |->
            [idf |-> IF term \in DOMAIN idf THEN idf[term] ELSE Rat(1, 1),
             factor |-> ScoreFactor(IF term \in DOMAIN tf THEN tf[term] ELSE 0, norm)]]

(***************************************************************************)
(* The inputs of the search specification: a corpus of at most             *)
(* MaxCorpusDocs documents of at most MaxWords words, and one call of      *)
(* score with a query and a document of at most MaxWords words.            *)
(***************************************************************************)
MaxWords == 2

MaxCorpusDocs == 2

Vocabulary == {"t", "u"}

WordTexts == UNION {[1..n -> Vocabulary] : n \in 0..MaxWords}

Corpora == UNION {[1..n -> WordTexts] : n \in 0..MaxCorpusDocs}

SearchIdle ==
    /\ srPc = "idle" /\ srDocs = <<>> /\ srAvgdl = NaN /\ srDf = <<>> /\ srIdf = <<>>
    /\ srQuery = <<>> /\ srDocument = <<>> /\ srScore = <<>>

SearchInit ==
    /\ srPc = "new" /\ srDocs \in Corpora
    /\ srAvgdl = NaN /\ srDf = <<>> /\ srIdf = <<>>
    /\ srQuery = <<>> /\ srDocument = <<>> /\ srScore = <<>>

\* Corpus::new: avgdl, then update_df, then update_idf.
CorpusNew ==
    /\ srPc = "new"
    /\ srAvgdl' = AvgdlFrom(srDocs)
    /\ srDf' = DfFrom(srDocs)
    /\ srIdf' = IdfFrom(Len(srDocs), DfFrom(srDocs))
    /\ srPc' = "ready"
    /\ UNCHANGED <<srDocs, srQuery, srDocument, srScore>>
    /\ UNCHANGED searchOthers

\* Corpus::score(query, document).
Score ==
    /\ srPc = "ready"
    /\ \E query \in WordTexts, document \in WordTexts :
          /\ srQuery' = query
          /\ srDocument' = document
          /\ srScore' = CorpusScore(srAvgdl, srIdf, query, document)
    /\ srPc' = "scored"
    /\ UNCHANGED <<srDocs, srAvgdl, srDf, srIdf>>
    /\ UNCHANGED searchOthers

SearchNext == CorpusNew \/ Score


(***************************************************************************)
(* vault.rs: Vault::new and Vault::find_backlinks, with Document::new,     *)
(* Document::stripped, Document::has_link_to and Link::points_to.          *)
(***************************************************************************)
\* The path string made of these components.
RECURSIVE PathString(_)
PathString(comps) ==
    IF comps = <<>> THEN <<>>
    ELSE IF Len(comps) = 1 THEN comps[1]
    ELSE LET front == PathString(Front(comps))
         IN  IF Last(front) = "/" THEN front \o Last(comps)
             ELSE front \o <<"/">> \o Last(comps)

\* Path::parent of a canonical path, and "" where it has none.
PathParent(comps) == IF Len(comps) > 1 THEN PathString(Front(comps)) ELSE <<>>

\* A mutant of LinkPointsTo: the paths are compared field by field.
LinkPointsToSameFields(url, target) ==
    LET path == LinkToMarkdownPath(url, PathParent(target.canonical_path))
    IN  path.some /\ path.val = target

\* Link::points_to: the url is resolved against the directory of the
\* target and the result compared with the target.
LinkPointsTo(url, target) ==
    LET path == LinkToMarkdownPath(url, PathParent(target.canonical_path))
    IN  path.some /\ MarkdownPathEq(path.val, target)

\* Document::has_link_to.
DocumentHasLinkTo(document, target) ==
    \E link \in document.links : LinkPointsTo(link.url, target)

\* Document::stripped on a text of words, line ends and inline links: every
\* Text event (a run of plain text, the label of a link) followed by a
\* blank; a line end gives no text.
RECURSIVE StrippedFrom(_, _, _)
StrippedFrom(text, i, run) ==
    LET flush == IF run = <<>> THEN <<>> ELSE run \o <<" ">>
    IN  IF i > Len(text) THEN flush
        ELSE LET l == InlineLinkAt(text, i)
             IN  IF l.found
                 THEN flush \o l.text \o <<" ">> \o StrippedFrom(text, l.last + 1, <<>>)
                 ELSE IF text[i] \in {Newline, " "}
                      THEN flush \o StrippedFrom(text, i + 1, <<>>)
                      ELSE StrippedFrom(text, i + 1, Append(run, text[i]))

DocumentStripped(document) == StrippedFrom(document.rope, 1, <<>>)

\* str::split_whitespace: the words of a string, each word one element.
RECURSIVE SplitWhitespace(_, _)
SplitWhitespace(s, word) ==
    LET flush == IF word = <<>> THEN <<>> ELSE <<word>>
    IN  IF s = <<>> THEN flush
        ELSE IF Head(s) \in {" ", Newline} THEN flush \o SplitWhitespace(Tail(s), <<>>)
        ELSE SplitWhitespace(Tail(s), Append(word, Head(s)))

\* What fs::read_to_string gives for a file.
Unreadable == [readable |-> FALSE, text |-> <<>>]

Readable(text) == [readable |-> TRUE, text |-> text]

\* Document::new once the path is made and the file read and parsed: the
\* read error, a panic of the position mapper in parse, or the document
\* (an Err of parse is dropped).
DocumentOf(parsed_path, file, parsed) ==
    IF ~file.readable THEN [outcome |-> "FailedToReadFile"]
    ELSE IF parsed.outcome = "Panic" THEN [outcome |-> "Panic"]
    ELSE [outcome |-> "Ok",
          document |-> [path |-> parsed_path, links |-> parsed.links, rope |-> file.text]]

DocumentRead(parsed_path, file) == DocumentOf(parsed_path, file, DocumentParse(file.text))

DocumentAt(parsed_path, content) ==
    IF ~parsed_path.ok THEN [outcome |-> "InvalidPath"]
    ELSE DocumentRead(parsed_path, content[parsed_path.canonical_path])

\* Document::new(base_path, path), the files holding `content`.
DocumentNew(base_path, path, content) ==
    DocumentAt(MarkdownPathNew(base_path, path), content)

\* base_path.read_dir(): the paths of the children of the directory, each
\* the base path joined with the child's name; the directory's error is
\* [ok |-> FALSE].
ReadDir(base_path) ==
    LET dir == Canonicalize(base_path)
    IN  IF dir \notin FsDirs THEN [ok |-> FALSE, entries |-> {}]
        ELSE [ok |-> TRUE,
              entries |-> {Join(base_path, Last(f)) : f \in {g \in FsFiles : Front(g) = dir}}]

\* A set as a sequence, in the order a map iterates over it.
RECURSIVE SetToSeq(_)
SetToSeq(S) ==
    IF S = {} THEN <<>>
    ELSE LET x == CHOOSE y \in S : TRUE IN <<x>> \o SetToSeq(S \ {x})

\* The Corpus of Vault::new: Corpus::new on the stripped documents.
VaultCorpus(documents) ==
    LET entries == SetToSeq(documents)
        docs == [i \in 1..Len(entries) |->
                    SplitWhitespace(DocumentStripped(entries[i].value), <<>>)]
    IN  [docs |-> docs, avgdl |-> AvgdlFrom(docs), df |-> DfFrom(docs),
         idf |-> IdfFrom(Len(docs), DfFrom(docs))]

\* Vault::find_backlinks: the path of every document that has a link to
\* the target, one element for an entry of the map.
VaultFindBacklinks(documents, target) ==
    SetToSeq({e.value.path : e \in {d \in documents : DocumentHasLinkTo(d.value, target)}})

(***************************************************************************)
(* The inputs of the vault specification: the directory /v of the file     *)
(* system with its notes a.md ... and the file c.txt, where each of the     *)
(* first MaxVaultNotes notes holds one of VaultTexts or cannot be read and *)
(* every other file holds a word; the base path the vault is opened with;  *)
(* the path whose backlinks are asked for.                                 *)
(***************************************************************************)
MaxVaultNotes == 2

VaultTexts ==
    { <<>>,
      <<"b">>,
      <<Newline, "[", "b", "]", "(", ".", "/">> \o NameB \o <<")">>,   \* a link to ./b.md
      <<"t", Newline, "[", "a", "]", "(">> \o StrV \o <<"/">> \o NameA \o <<")">>,
      <<"[", "b", "]", "(">> \o NameB \o <<")">> }      \* a link on the first line

VaultContents ==
    {[f \in FsFiles |->
        IF \E i \in 1..MaxVaultNotes : f = <<RootDir, NameV, NameOf(i)>>
        THEN c[CHOOSE i \in 1..MaxVaultNotes : f = <<RootDir, NameV, NameOf(i)>>]
        ELSE Readable(<<"b">>)] :
        c \in [1..MaxVaultNotes -> {Readable(text) : text \in VaultTexts} \cup {Unreadable}]}

\* /v, v (relative to the working directory /) and a directory that does
\* not exist.
VaultBases == {StrV, NameV, <<"/", "w">>}

BacklinkLeaves == {NameA, <<".", "/">> \o NameB, StrV \o <<"/">> \o NameOf(3)}

NoCorpus == [docs |-> <<>>, avgdl |-> NaN, df |-> <<>>, idf |-> <<>>]

VaultIdle ==
    /\ vtPc = "idle" /\ vtBase = <<>> /\ vtContent = <<>> /\ vtDocuments = {}
    /\ vtCorpus = NoCorpus /\ vtErrors = {} /\ vtTarget = None /\ vtBacklinks = <<>>

VaultInit ==
    /\ vtPc = "start" /\ vtBase \in VaultBases /\ vtContent \in VaultContents
    /\ vtDocuments = {} /\ vtCorpus = NoCorpus /\ vtErrors = {}
    /\ vtTarget = None /\ vtBacklinks = <<>>

\* Vault::new once the directory is read and a Document::new has run on
\* every entry: Err(ReadDirFailed), a panic of a Document::new passed on by
\* the parallel iterator, or the Vault of the documents whose construction
\* succeeded; a failed construction is dropped by `.ok()` and nothing of it
\* is handed to the caller.
VaultOf(dir, made) ==
    IF ~dir.ok THEN [outcome |-> "ReadDirFailed", documents |-> {}]
    ELSE IF \E path \in dir.entries : made[path].outcome = "Panic"
         THEN [outcome |-> "Panic", documents |-> {}]
         ELSE [outcome |-> "Ok",
               documents |-> {[key |-> made[path].document.path,
                               value |-> made[path].document] :
                                 path \in {q \in dir.entries : made[q].outcome = "Ok"}}]

VaultRead(dir, base_path, content) ==
    VaultOf(dir, [path \in dir.entries |-> DocumentNew(base_path, path, content)])

\* Vault::new(base_path), the files holding `content`.
VaultNewResult(base_path, content) == VaultRead(ReadDir(base_path), base_path, content)

\* The state that a result of Vault::new leaves.
VaultLoaded(vault) ==
    /\ vtPc' = CASE vault.outcome = "Ok" -> "loaded"
                  [] vault.outcome = "Panic" -> "panicked"
                  [] OTHER -> "failed"
    /\ vtDocuments' = vault.documents
    /\ vtCorpus' = IF vault.outcome = "Ok" THEN VaultCorpus(vault.documents) ELSE NoCorpus

VaultNew ==
    /\ vtPc = "start"
    /\ VaultLoaded(VaultNewResult(vtBase, vtContent))
    /\ vtErrors' = {}
    /\ UNCHANGED <<vtBase, vtContent, vtTarget, vtBacklinks>>
    /\ UNCHANGED vaultOthers

\* The Backlinks subcommand: vault.find_backlinks(&full_path) for the
\* MarkdownPath of a path under the vault directory.
FindBacklinks ==
    /\ vtPc = "loaded"
    /\ \E leaf \in BacklinkLeaves :
          LET full_path == MarkdownPathNew(vtBase, leaf)
          IN  /\ full_path.ok
              /\ vtTarget' = Some(full_path)
              /\ vtBacklinks' = VaultFindBacklinks(vtDocuments, full_path)
    /\ vtPc' = "backlinks"
    /\ UNCHANGED <<vtBase, vtContent, vtDocuments, vtCorpus, vtErrors>>
    /\ UNCHANGED vaultOthers

VaultNext == VaultNew \/ FindBacklinks


(***************************************************************************)
(* The search subcommand (main.rs): the BM25 scores of Vault::search, the  *)
(* ranks of the matches, the combined score, the sort and the truncation.  *)
(* Scores are integers here (a unit is a tenth of the smallest score       *)
(* drawn); combined is kept ten times its value, 7 * bm25 + 3 * rank.      *)
(***************************************************************************)
MAX_RESULTS == 10

\* factor = 0.7 and 1 - factor, in tenths.
FactorTenths == 7

MaxTitles == 3

\* The titles of the documents, in ascending order: a title is smaller
\* than another when it comes earlier here.
TitlesAscending == <<"a", "b", "c", "d", "e">>

PipelineDocs == 1..MaxTitles

\* Document::name of a document of the vault, for a note without a title in
\* its metadata: the stem of its file.
DocumentName(doc) == TitlesAscending[doc]

TitleBefore(a, b) ==
    \E i, j \in 1..Len(TitlesAscending) :
        i < j /\ TitlesAscending[i] = DocumentName(a) /\ TitlesAscending[j] = DocumentName(b)

Bm25Scores == {0, 1, 2}

RankScores == {1, 2}

OrdersOf(S) ==
    {s \in [1..Cardinality(S) -> S] : \A i, j \in 1..Cardinality(S) : s[i] = s[j] => i = j}

\* Vault::search, then the filter of main: the documents whose score is
\* above zero, in the order the HashMap of the scores iterates, which is
\* any order.
Bm25Matches(scores) ==
    OrdersOf({doc \in DOMAIN scores : scores[doc] > 0})

SearchResult(doc, bm25, rank) ==
    [document |-> doc, bm25 |-> bm25, rank |-> rank,
     combined |-> FactorTenths * bm25 + (10 - FactorTenths) * rank]

\* The comparator of sort_unstable_by: b.combined against a.combined, so
\* a result stands before another when its combined score is not smaller.
SortedByCombined(res) ==
    \A i, j \in 1..Len(res) : i < j => res[i].combined >= res[j].combined

\* sort_unstable_by: the results in an order the comparator accepts; equal
\* results keep no order of their own.
SortUnstableBy(res) ==
    {s \in {[i \in 1..Len(res) |-> res[p[i]]] : p \in OrdersOf(1..Len(res))} :
        SortedByCombined(s)}

Truncate(res, n) == SubSeq(res, 1, Min(Len(res), n))

PipelineIdle ==
    /\ plPc = "idle"
    /\ plBm25 = <<>>
    /\ plRank = <<>>
    /\ plRes = <<>>

PipelineInit ==
    /\ plPc = "start"
    /\ plBm25 \in [PipelineDocs -> Bm25Scores]
    /\ plRank \in [PipelineDocs -> RankScores]
    /\ plRes = <<>>

\* Subcommand::Search.
SearchCommand ==
    /\ plPc = "start"
    /\ \E matches \in Bm25Matches(plBm25) :
          \E sorted \in SortUnstableBy(
                [i \in 1..Len(matches) |->
                    SearchResult(matches[i], plBm25[matches[i]], plRank[matches[i]])]) :
              plRes' = Truncate(sorted, MAX_RESULTS)
    /\ plPc' = "printed"
    /\ UNCHANGED <<plBm25, plRank>>
    /\ UNCHANGED pipelineOthers

PipelineNext == SearchCommand


(***************************************************************************)
(* completion as a function of the rope and the cursor: the ropes over a   *)
(* small alphabet, and the ropes "[[aaa..." that are as long as the scan   *)
(* goes back.                                                              *)
(***************************************************************************)
MaxRopeLen == 4

RopeAlphabet == {"[", "]", "a", "G", Newline}

\* "[[" and then n times "a".
LongRope(n) == [i \in 1..(n + 2) |-> IF i <= 2 THEN "[" ELSE "a"]

LongRopes == {LongRope(n) : n \in (ScanLimit - 2)..(ScanLimit + 1)}

CompletionRopes == UNION {[1..n -> RopeAlphabet] : n \in 0..MaxRopeLen} \cup LongRopes

\* The cursors of a rope: a line, one past the last line included, and a
\* column in UTF-16 code units, one past the end included.
CompletionCursors(rope) ==
    IF rope \in LongRopes
    THEN {<<0, Len(rope) - 1>>, <<0, Len(rope)>>}
    ELSE (0..RopeLenLines(rope)) \X (0..(MaxRopeLen + 2))

CompletionIdle ==
    /\ cpPc = "idle"
    /\ cpRope = <<>>
    /\ cpCursor = <<0, 0>>
    /\ cpCursorChar = 0
    /\ cpTrigger = [start_char |-> 0, query |-> None]
    /\ cpAnswer = OkNone(<<>>)

CompletionInit ==
    /\ cpPc = "start"
    /\ cpRope \in CompletionRopes
    /\ cpCursor \in CompletionCursors(cpRope)
    /\ cpCursorChar = 0
    /\ cpTrigger = [start_char |-> 0, query |-> None]
    /\ cpAnswer = OkNone(<<>>)

\* completion on a document of the store.
CompletionOf(rope, cursor_char, answer) ==
    /\ cpCursorChar' = cursor_char
    /\ cpTrigger' = IF cursor_char < 0 THEN [start_char |-> 0, query |-> None]
                    ELSE CompletionTrigger(rope, cursor_char)
    /\ cpAnswer' = answer

CompletionRequest ==
    /\ cpPc = "start"
    /\ CompletionOf(cpRope, LspPosToChar(cpRope, cpCursor[1], cpCursor[2]),
                    CompletionAnswer(cpRope, cpCursor[1], cpCursor[2]))
    /\ cpPc' = "answered"
    /\ UNCHANGED <<cpRope, cpCursor>>
    /\ UNCHANGED completionOthers

CompletionNext == CompletionRequest


(***************************************************************************)
(* goto_definition on a document of the vault, as a function of the text   *)
(* the vault loaded and the cursor.  The texts are made of a letter, a     *)
(* line ending, a link to b.md, a link to b.md whose destination is on the *)
(* next line and a link to a file that does not exist.                     *)
(***************************************************************************)
MaxGotoPieces == 3

GotoPieces ==
    {<<"a">>, <<Newline>>,
     <<"[", "a", "]", "(">> \o NameB \o <<")">>,
     <<"[", "a", "]", "(", Newline>> \o NameB \o <<")">>,
     <<"[", "a", "]", "(", "x", ")">>}

\* The texts Vault::new loads: Document::new does not panic on them.
GotoTexts ==
    {text \in {Concat(ps) : ps \in UNION {[1..n -> GotoPieces] : n \in 0..MaxGotoPieces}} :
        DocumentParse(text).outcome # "Panic"}

DefinitionIdle ==
    /\ gdPc = "idle"
    /\ gdText = <<>>
    /\ gdLinks = {}
    /\ gdCursor = <<0, 0>>
    /\ gdAnswer = OkNone(<<>>)

\* The vault holds the document with the links of its file.
DefinitionInit ==
    /\ gdPc = "loaded"
    /\ gdText \in GotoTexts
    /\ gdLinks = DocumentParse(gdText).links
    /\ gdCursor = <<0, 0>>
    /\ gdAnswer = OkNone(<<>>)

\* goto_definition for a cursor of the document.
DefinitionRequest ==
    /\ gdPc = "loaded"
    /\ \E row \in 0..(Len(LineStarts(gdText)) + 1), col \in 0..(Len(gdText) + 1) :
          /\ gdCursor' = <<row, col>>
          /\ gdAnswer' \in LinkAnswersOf(gdLinks, row, col, "Location")
    /\ gdPc' = "answered"
    /\ UNCHANGED <<gdText, gdLinks>>
    /\ UNCHANGED definitionOthers

DefinitionNext == DefinitionRequest


(***************************************************************************)
(* query.rs: Query::matches, and Value::contains of document.rs.  A Query  *)
(* is a record with its variant in `op`; a Value is a record with its      *)
(* variant in `kind`.                                                      *)
(***************************************************************************)
Contains(key, value) == [op |-> "Contains", key |-> key, value |-> value]

Not(query) == [op |-> "Not", query |-> query]

Binary(op, left, right) == [op |-> op, left |-> left, right |-> right]

ValueString(val) == [kind |-> "String", val |-> val]

ValueInteger(n) == [kind |-> "Integer", n |-> n]

ValueArray(values) == [kind |-> "Array", values |-> values]

ValueNull == [kind |-> "Null"]

\* needle.parse::<i64>() on the needles of the model.
ParseI64(needle) == IF needle = "1" THEN Some(1) ELSE None

\* Value::contains.  The values of an Array are scalars here.
ValueContains(value, needle) ==
    LET Scalar(v) ==
            CASE v.kind = "String" -> v.val = needle
              [] v.kind = "Integer" ->
                    LET m == ParseI64(needle) IN m.some /\ m.val = v.n
              [] OTHER -> FALSE
    IN  IF value.kind = "Array"
        THEN \E i \in 1..Len(value.values) : Scalar(value.values[i])
        ELSE Scalar(value)

\* Document::get_metadata: the metadata is a map from keys to Values.
GetMetadata(metadata, key) ==
    IF key \in DOMAIN metadata THEN Some(metadata[key]) ELSE None

\* A matches in which Xor is the disjunction.
RECURSIVE QueryMatchesXorAsOr(_, _)
QueryMatchesXorAsOr(query, metadata) ==
    CASE query.op = "Contains" ->
            LET target == GetMetadata(metadata, query.key)
            IN  IF target.some THEN ValueContains(target.val, query.value) ELSE FALSE
      [] query.op = "Not" -> ~QueryMatchesXorAsOr(query.query, metadata)
      [] query.op = "And" ->
            QueryMatchesXorAsOr(query.left, metadata) /\ QueryMatchesXorAsOr(query.right, metadata)
      [] OTHER ->
            QueryMatchesXorAsOr(query.left, metadata) \/ QueryMatchesXorAsOr(query.right, metadata)

\* Query::matches.
RECURSIVE QueryMatches(_, _)
QueryMatches(query, metadata) ==
    CASE query.op = "Contains" ->
            LET target == GetMetadata(metadata, query.key)
            IN  IF target.some THEN ValueContains(target.val, query.value) ELSE FALSE
      [] query.op = "Not" -> ~QueryMatches(query.query, metadata)
      [] query.op = "And" ->
            QueryMatches(query.left, metadata) /\ QueryMatches(query.right, metadata)
      [] query.op = "Or" ->
            QueryMatches(query.left, metadata) \/ QueryMatches(query.right, metadata)
      [] query.op = "Xor" ->
            QueryMatches(query.left, metadata) # QueryMatches(query.right, metadata)

(***************************************************************************)
(* The inputs of the query specification: the queries of at most           *)
(* MaxQueryNodes nodes over two keys and three needles, and the metadata   *)
(* of a document.                                                          *)
(***************************************************************************)
MaxQueryNodes == 4

QueryKeys == {"tags", "title"}

QueryNeedles == {"rust", "pl", "1"}

RECURSIVE QueriesOfSize(_)
QueriesOfSize(n) ==
    IF n = 1 THEN {Contains(key, value) : key \in QueryKeys, value \in QueryNeedles}
    ELSE {Not(q) : q \in QueriesOfSize(n - 1)}
         \cup UNION {{Binary(op, l, r) : op \in {"And", "Or", "Xor"},
                                        l \in QueriesOfSize(k),
                                        r \in QueriesOfSize(n - 1 - k)} : k \in 1..(n - 2)}

Queries == UNION {QueriesOfSize(n) : n \in 1..MaxQueryNodes}

TagsValues ==
    {ValueString("rust"), ValueArray(<<ValueString("rust"), ValueString("pl")>>),
     ValueArray(<<>>), ValueInteger(1), ValueNull}

Metadatas ==
    {<<>>} \cup {[k \in {"tags"} |-> v] : v \in TagsValues}
           \cup {[k \in {"title"} |-> ValueString("pl")]}
           \cup {[k \in QueryKeys |-> IF k = "tags" THEN v ELSE ValueString("pl")] :
                    v \in TagsValues}

QueryIdle ==
    /\ qyPc = "idle"
    /\ qyQuery = Contains("tags", "rust")
    /\ qyMetadata = <<>>
    /\ qyResult = FALSE

QueryInit ==
    /\ qyPc = "start"
    /\ qyQuery \in Queries
    /\ qyMetadata \in Metadatas
    /\ qyResult = FALSE

\* query.matches(document).
Matches ==
    /\ qyPc = "start"
    /\ qyResult' = QueryMatches(qyQuery, qyMetadata)
    /\ qyPc' = "matched"
    /\ UNCHANGED <<qyQuery, qyMetadata>>
    /\ UNCHANGED queryOthers

QueryNext == Matches


(***************************************************************************)
(* did_change on the entry of an open document, as a function of the rope  *)
(* and the batch of changes.                                               *)
(***************************************************************************)
MaxBatch == 2

ChangeRopes ==
    {<<>>, <<"a">>, <<"a", "G">>, <<"a", Newline, "a">>, <<"G", Newline>>}

\* The positions of the changes: on the first line, past its end, on the
\* second line and on the third.
ChangePositions == {<<0, 0>>, <<0, 1>>, <<0, 3>>, <<1, 0>>, <<2, 0>>}

Changes ==
    {Full(<<>>), Full(<<"b">>)}
        \cup {Splice(start, end, <<"b">>) : start \in ChangePositions, end \in ChangePositions}

Batches == UNION {[1..n -> Changes] : n \in 0..MaxBatch}

ChangeIdle ==
    /\ chPc = "idle"
    /\ chRope = <<>>
    /\ chBatch = <<>>
    /\ chResult = [ok |-> TRUE, rope |-> <<>>]

ChangeInit ==
    /\ chPc = "open"
    /\ chRope \in ChangeRopes
    /\ chBatch \in Batches
    /\ chResult = [ok |-> TRUE, rope |-> chRope]

\* did_change after documents.get_mut: the loop over content_changes.
\* ok is FALSE when Rope::remove panics.
DidChangeBatch ==
    /\ chPc = "open"
    /\ chResult' = ApplyChanges(chRope, chBatch)
    /\ chPc' = "changed"
    /\ UNCHANGED <<chRope, chBatch>>
    /\ UNCHANGED changeOthers

ChangeNext == DidChangeBatch


(***************************************************************************)
(* Document::stripped over the events of the parser.  A document is a      *)
(* sequence of blocks; the text of paragraph j of block i is <<i, j>>, so  *)
(* that every text of the result is known by its place.                    *)
(***************************************************************************)
MaxBlocks == 3

MaxParagraphs == 2

\* The blocks of a document: a paragraph, a fenced code block, a paragraph
\* that holds an image, a metadata block, a table, and a footnote
\* definition of one or more paragraphs.
BlockKinds ==
    {[kind |-> k, paragraphs |-> 1] :
        k \in {"Paragraph", "CodeBlock", "Image", "MetadataBlock", "Table"}}
    \cup {[kind |-> "FootnoteDefinition", paragraphs |-> n] : n \in 1..MaxParagraphs}

StrippedDocuments == UNION {[1..n -> BlockKinds] : n \in 0..MaxBlocks}

Start(tag) == [ev |-> "Start", tag |-> tag]

End(tag) == [ev |-> "End", tag |-> tag]

Text(i, j) == [ev |-> "Text", text |-> <<i, j>>]

\* The events of Parser::new_ext for block i under the options of stripped:
\* metadata blocks, footnotes and math are enabled, tables are not, so the
\* rows of a table come as the text of a paragraph.
BlockEvents(block, i) ==
    CASE block.kind \in {"Paragraph", "Table"} ->
            <<Start("Paragraph"), Text(i, 1), End("Paragraph")>>
      [] block.kind \in {"CodeBlock", "MetadataBlock"} ->
            <<Start(block.kind), Text(i, 1), End(block.kind)>>
      [] block.kind = "Image" ->
            <<Start("Paragraph"), Start("Image"), Text(i, 1), End("Image"), End("Paragraph")>>
      [] block.kind = "FootnoteDefinition" ->
            <<Start("FootnoteDefinition")>>
                \o Concat([j \in 1..block.paragraphs |->
                              <<Start("Paragraph"), Text(i, j), End("Paragraph")>>])
                \o <<End("FootnoteDefinition")>>

ParserEvents(blocks) == Concat([i \in 1..Len(blocks) |-> BlockEvents(blocks[i], i)])

\* The tags whose Start makes stripped skip.
SkippedTags ==
    {"MetadataBlock", "Superscript", "Subscript", "FootnoteDefinition", "CodeBlock",
     "Table", "Image"}

\* The inner loop of stripped: it takes events up to and with the first
\* End of any tag; the index of the event after it.
SkipToEnd(events, i) ==
    LET ends == {k \in i..Len(events) : events[k].ev = "End"}
    IN  IF ends = {} THEN Len(events) + 1
        ELSE (CHOOSE k \in ends : \A j \in ends : k <= j) + 1

\* What stripped pushes on its string: a text, or a char.
Pushed(text) == [text |-> text]

PushedChar(c) == [char |-> c]

\* The loop of stripped from event i on, res being the string so far: a
\* text is pushed with a blank after it.
RECURSIVE StrippedLoop(_, _, _)
StrippedLoop(events, i, res) ==
    IF i > Len(events) THEN res
    ELSE LET event == events[i]
         IN  CASE event.ev = "Text" ->
                     StrippedLoop(events, i + 1, res \o <<Pushed(event.text), PushedChar(" ")>>)
               [] event.ev = "SoftBreak" ->
                     StrippedLoop(events, i + 1, Append(res, PushedChar(" ")))
               [] event.ev \in {"HardBreak", "Rule"} ->
                     StrippedLoop(events, i + 1, Append(res, PushedChar(Newline)))
               [] event.ev = "Start" /\ event.tag \in SkippedTags ->
                     StrippedLoop(events, SkipToEnd(events, i + 1), res)
               [] OTHER -> StrippedLoop(events, i + 1, res)

StrippedIdle ==
    /\ stPc = "idle"
    /\ stBlocks = <<>>
    /\ stResult = <<>>

StrippedInit ==
    /\ stPc = "parsed"
    /\ stBlocks \in StrippedDocuments
    /\ stResult = <<>>

\* document.stripped().
Stripped ==
    /\ stPc = "parsed"
    /\ stResult' = StrippedLoop(ParserEvents(stBlocks), 1, <<>>)
    /\ stPc' = "stripped"
    /\ UNCHANGED stBlocks
    /\ UNCHANGED strippedOthers

StrippedNext == Stripped


(***************************************************************************)
(* document.rs: Document::new and Document::parse on a file with a         *)
(* frontmatter and links.  Pos::new reads the file again for every link    *)
(* (pos.rs 209), so the position of a link cannot be computed when the     *)
(* file has become unreadable by then.                                     *)
(***************************************************************************)
MaxParseLinks == 3

MaxEntries == 2

\* The labels of the links of a document, in the order of the text.
LinkLabels == <<"a", "b", "c", "d", "e">>

\* The kinds of key of a frontmatter entry: Yaml::String or another Yaml.
KeyKinds == {"String", "Integer"}

Fence == <<"-", "-", "-", Newline>>

\* The text of a file: the frontmatter, when it has entries, with one line
\* per entry, then one link per line.
LinkedFileText(entries, numLinks) ==
    (IF entries = <<>> THEN <<>>
     ELSE Fence \o Concat([k \in 1..Len(entries) |-> <<"k", Newline>>]) \o Fence)
    \o Concat([k \in 1..numLinks |->
                  <<"[", LinkLabels[k], "]", "(", "b", ")", Newline>>])

\* Document::parse from character i on, reads telling for each link still
\* to come whether fs::read_to_string of Pos::new succeeds.  The `?` on the
\* result of Pos::new returns from parse at the first error.
RECURSIVE ParseReading(_, _, _, _)
ParseReading(text, i, links, reads) ==
    IF i > Len(text) THEN [outcome |-> "Ok", links |-> links]
    ELSE LET l == InlineLinkAt(text, i)
         IN  IF ~l.found THEN ParseReading(text, i + 1, links, reads)
             ELSE LET position == IF Head(reads)
                                  THEN PosNew(ByteStart(text, l.first),
                                              ByteStart(text, l.last + 1), text, "utf-16")
                                  ELSE PosErr("CannotOpenFile")
                  IN  IF position.ok
                      THEN ParseReading(text, l.last + 1,
                                        links \cup {LinkNew(l.text, l.url, position.pos)},
                                        Tail(reads))
                      ELSE IF position.err = "Panic"
                           THEN [outcome |-> "Panic", links |-> links]
                           ELSE [outcome |-> "Err", links |-> links]

\* Document::insert_metadata over the entries of the frontmatter: the
\* result of each call is dropped, an entry with a key that is no string
\* is not inserted.
InsertedMetadata(entries) == {k \in 1..Len(entries) : entries[k] = "String"}

ParseIdle ==
    /\ dpPc = "idle" /\ dpEntries = <<>> /\ dpReads = <<>>
    /\ dpLinks = {} /\ dpMetadata = {}

ParseInit ==
    /\ dpPc = "new"
    /\ dpEntries \in UNION {[1..n -> KeyKinds] : n \in 0..MaxEntries}
    /\ dpReads \in UNION {[1..n -> BOOLEAN] : n \in 0..MaxParseLinks}
    /\ dpLinks = {} /\ dpMetadata = {}

\* Document::new: the file is read, the document is parsed and the result
\* of parse is dropped.  The frontmatter comes first in the text, so its
\* entries are inserted before any link is read.
DocumentNewOnFile ==
    /\ dpPc = "new"
    /\ \E parsed \in {ParseReading(LinkedFileText(dpEntries, Len(dpReads)), 1, {}, dpReads)} :
          /\ dpLinks' = parsed.links
          /\ dpMetadata' = InsertedMetadata(dpEntries)
          /\ dpPc' = IF parsed.outcome = "Panic" THEN "panicked" ELSE "constructed"
    /\ UNCHANGED <<dpEntries, dpReads>>
    /\ UNCHANGED parseOthers

ParseNext == DocumentNewOnFile


(***************************************************************************)
(* vault.rs and search.rs: Vault::new step by step, for the orders of the  *)
(* parallel iterators.  par_bridge hands the directory entries to the      *)
(* workers in any order and the results are inserted into the map as they  *)
(* come; the stripped documents are collected in the order the map         *)
(* iterates; Df::from reduces the maps of the documents, neighbours        *)
(* first, in any grouping.  The sums of Avgdl::from are sums of word       *)
(* counts, which f32 adds exactly in any order.                            *)
(***************************************************************************)
MaxBuildNotes == 2

BuildTexts ==
    { <<"b">>,
      <<"b", " ", "b">>,
      <<"t", Newline, "[", "b", "]", "(">> \o StrV \o <<"/">> \o NameA \o <<")">>,
      <<"[", "b", "]", "(">> \o NameB \o <<")">> }      \* a link on the first line

BuildContents ==
    {[f \in FsFiles |->
        IF \E i \in 1..MaxBuildNotes : f = <<RootDir, NameV, NameOf(i)>>
        THEN c[CHOOSE i \in 1..MaxBuildNotes : f = <<RootDir, NameV, NameOf(i)>>]
        ELSE Readable(<<"b">>)] :
        c \in [1..MaxBuildNotes -> {Readable(text) : text \in BuildTexts} \cup {Unreadable}]}

\* base_path.read_dir() on a directory that holds the first MaxBuildNotes
\* notes and the file c.txt.
BuildDir(base_path) ==
    LET dir == ReadDir(base_path)
    IN  [ok |-> dir.ok,
         entries |-> {p \in dir.entries :
                        \/ \E i \in 1..MaxBuildNotes : p = Join(base_path, NameOf(i))
                        \/ p = Join(base_path, NameTxt)}]

BuildIdle ==
    /\ pbPc = "idle" /\ pbBase = <<>> /\ pbContent = <<>> /\ pbTodo = {}
    /\ pbDocuments = {} /\ pbLeft = {} /\ pbDocs = <<>> /\ pbParts = <<>>
    /\ pbCorpus = NoCorpus

BuildInit ==
    /\ pbPc = "start" /\ pbBase \in VaultBases /\ pbContent \in BuildContents
    /\ pbTodo = {} /\ pbDocuments = {} /\ pbLeft = {} /\ pbDocs = <<>>
    /\ pbParts = <<>> /\ pbCorpus = NoCorpus

\* read_dir and its `?`.
BuildReadDir ==
    /\ pbPc = "start"
    /\ \E dir \in {BuildDir(pbBase)} :
          /\ pbPc' = IF dir.ok THEN "workers" ELSE "failed"
          /\ pbTodo' = dir.entries
    /\ UNCHANGED <<pbBase, pbContent, pbDocuments, pbLeft, pbDocs, pbParts, pbCorpus>>
    /\ UNCHANGED buildOthers

\* A worker takes an entry: Document::new, `.ok()`, and the insertion of
\* (document.path(), document) into the map.  A panic of Document::new is
\* passed on by the parallel iterator.
BuildWorker ==
    /\ pbPc = "workers"
    /\ \E path \in pbTodo :
          \E made \in {DocumentNew(pbBase, path, pbContent)} :
              /\ pbTodo' = pbTodo \ {path}
              /\ pbPc' = IF made.outcome = "Panic" THEN "panicked" ELSE "workers"
              /\ pbDocuments' =
                    IF made.outcome = "Ok"
                    THEN HashMapInsert(pbDocuments, made.document.path, made.document)
                    ELSE pbDocuments
    /\ UNCHANGED <<pbBase, pbContent, pbLeft, pbDocs, pbParts, pbCorpus>>
    /\ UNCHANGED buildOthers

\* The map is collected: documents.par_iter() starts.
BuildCollected ==
    /\ pbPc = "workers" /\ pbTodo = {}
    /\ pbLeft' = pbDocuments
    /\ pbPc' = "docs"
    /\ UNCHANGED <<pbBase, pbContent, pbTodo, pbDocuments, pbDocs, pbParts, pbCorpus>>
    /\ UNCHANGED buildOthers

\* The next stripped document of the Vec, in the order the map iterates.
BuildStripped ==
    /\ pbPc = "docs"
    /\ \E e \in pbLeft :
          /\ pbLeft' = pbLeft \ {e}
          /\ pbDocs' = Append(pbDocs, SplitWhitespace(DocumentStripped(e.value), <<>>))
    /\ UNCHANGED <<pbPc, pbBase, pbContent, pbTodo, pbDocuments, pbParts, pbCorpus>>
    /\ UNCHANGED buildOthers

\* Corpus::new has its docs: the map of Df::from runs on every document.
BuildDfMap ==
    /\ pbPc = "docs" /\ pbLeft = {}
    /\ pbParts' = [i \in 1..Len(pbDocs) |-> DfOfDocument(pbDocs[i])]
    /\ pbPc' = "df"
    /\ UNCHANGED <<pbBase, pbContent, pbTodo, pbDocuments, pbLeft, pbDocs, pbCorpus>>
    /\ UNCHANGED buildOthers

\* One step of the reduce of Df::from: two neighbours are merged with
\* a.extend(b).
BuildDfReduce ==
    /\ pbPc = "df" /\ Len(pbParts) > 1
    /\ \E i \in 1..(Len(pbParts) - 1) :
          pbParts' = SubSeq(pbParts, 1, i - 1)
                        \o <<HashMapExtend(pbParts[i], pbParts[i + 1])>>
                        \o SubSeq(pbParts, i + 2, Len(pbParts))
    /\ UNCHANGED <<pbPc, pbBase, pbContent, pbTodo, pbDocuments, pbLeft, pbDocs, pbCorpus>>
    /\ UNCHANGED buildOthers

\* The reduce is over (the empty map for no document); Idf::from and
\* Avgdl::from give the rest of the Corpus.
BuildCorpus ==
    /\ pbPc = "df" /\ Len(pbParts) <= 1
    /\ \E df \in {IF pbParts = <<>> THEN <<>> ELSE pbParts[1]} :
          pbCorpus' = [docs |-> pbDocs, avgdl |-> AvgdlFrom(pbDocs), df |-> df,
                       idf |-> IdfFrom(Len(pbDocs), df)]
    /\ pbPc' = "done"
    /\ UNCHANGED <<pbBase, pbContent, pbTodo, pbDocuments, pbLeft, pbDocs, pbParts>>
    /\ UNCHANGED buildOthers

BuildNext ==
    \/ BuildReadDir \/ BuildWorker \/ BuildCollected \/ BuildStripped
    \/ BuildDfMap \/ BuildDfReduce \/ BuildCorpus


(***************************************************************************)
(* lsp.rs: what a handler writes.  The Backend holds the live store        *)
(* (documents: DashMap<Url, Rope>) and the Vault it was built with; every  *)
(* handler takes &self.  Each handler is taken here from its first line to *)
(* its last, with the Url and the kind of the message it serves.           *)
(***************************************************************************)
MaxStoreMsgs == 3

\* The Urls of the client's notifications and requests.
StoreUris == DOMAIN Uris

\* A mutant of DashMapRemove: the map is cleared.
DashMapClear(map, key) == [k \in DOMAIN map |-> None]

\* DashMap::remove.
DashMapRemove(map, key) == [map EXCEPT ![key] = None]

\* DashMap::insert.
DashMapInsert(map, key, value) == [map EXCEPT ![key] = Some(value)]

StoreIdle ==
    /\ fsPc = "idle" /\ fsStore = <<>> /\ fsVault = <<>>
    /\ fsKind = "none" /\ fsUri = 0 /\ fsCount = 0

\* Backend::run: the empty store and the Vault.
StoreInit ==
    /\ fsPc = "serving"
    /\ fsStore = [u \in StoreUris |-> None]
    /\ fsVault = VaultLinks
    /\ fsKind = "none" /\ fsUri = 0 /\ fsCount = 0

StoreServes == fsPc = "serving" /\ fsCount < MaxStoreMsgs

StoreServed(kind, u) ==
    /\ fsKind' = kind
    /\ fsUri' = u
    /\ fsCount' = fsCount + 1

\* did_open.
StoreDidOpen ==
    /\ StoreServes
    /\ \E u \in StoreUris, text \in OpenTexts :
          /\ fsStore' = DashMapInsert(fsStore, u, text)
          /\ StoreServed("didOpen", u)
    /\ UNCHANGED <<fsPc, fsVault>>
    /\ UNCHANGED storeOthers

\* did_change: the batch is applied to the entry that get_mut returns, and
\* to nothing when there is none; rope.remove may panic.
StoreDidChange ==
    /\ StoreServes
    /\ \E u \in StoreUris, b \in DOMAIN ChangeBatches :
          /\ IF fsStore[u].some
             THEN \E changed \in {ApplyChanges(fsStore[u].val, ChangeBatches[b])} :
                     /\ fsStore' = DashMapInsert(fsStore, u, changed.rope)
                     /\ fsPc' = IF changed.ok THEN "serving" ELSE "crashed"
             ELSE UNCHANGED <<fsStore, fsPc>>
          /\ StoreServed("didChange", u)
    /\ UNCHANGED fsVault
    /\ UNCHANGED storeOthers

\* did_close.
StoreDidClose ==
    /\ StoreServes
    /\ \E u \in StoreUris :
          /\ fsStore' = DashMapRemove(fsStore, u)
          /\ StoreServed("didClose", u)
    /\ UNCHANGED <<fsPc, fsVault>>
    /\ UNCHANGED storeOthers

\* completion, goto_definition and hover: they read the store (get, clone)
\* and the Vault (get_document, links, resolve_link, documents).
StoreRequest ==
    /\ StoreServes
    /\ \E u \in StoreUris, kind \in Requests : StoreServed(kind, u)
    /\ UNCHANGED <<fsPc, fsStore, fsVault>>
    /\ UNCHANGED storeOthers

StoreNext == StoreDidOpen \/ StoreDidChange \/ StoreDidClose \/ StoreRequest


(***************************************************************************)
(* lsp.rs: the places of the handlers, their awaits and the entries of the *)
(* live store they hold.  A handler is suspended at its awaits             *)
(* (client.log_message) and nowhere else; DashMap::get, get_mut, insert    *)
(* and remove wait while another handler holds the entry.  Of the data     *)
(* the model keeps what decides the way of a handler: whether the Url has  *)
(* an entry, whether a change of a batch makes rope.remove panic (its      *)
(* start lies after its end) and whether the cursor of a completion lies   *)
(* on a line of the rope.                                                  *)
(***************************************************************************)
MaxLockMsgs == 3

MaxLockBatch == 2

LockUris == 1..2

\* What a change of a batch does to the rope it is applied to.
ChangeWays == {"applied", "panics"}

LockBatches == UNION {[1..n -> ChangeWays] : n \in 1..MaxLockBatch}

LockFree == [pc |-> "free", kind |-> "none", uri |-> 0, batch |-> <<>>, k |-> 0]

LockHandler(kind, u) == [LockFree EXCEPT !.pc = "log", !.kind = kind, !.uri = u]

LockIdle ==
    /\ lkHandlers = <<>> /\ lkGuard = <<>> /\ lkEntry = <<>>
    /\ lkReceived = 0 /\ lkCrashed = FALSE

LockInit ==
    /\ lkHandlers = [h \in 1..MaxLockMsgs |-> LockFree]
    /\ lkGuard = [u \in LockUris |-> 0]
    /\ lkEntry = [u \in LockUris |-> FALSE]
    /\ lkReceived = 0 /\ lkCrashed = FALSE

LockCanReceive == ~lkCrashed /\ lkReceived < MaxLockMsgs

\* A message arrives: its handler runs to its first await.
LockReceive(kind, u) ==
    /\ lkHandlers' = [lkHandlers EXCEPT ![lkReceived + 1] = LockHandler(kind, u)]
    /\ lkReceived' = lkReceived + 1

\* did_open to its await.
LockDidOpen ==
    /\ LockCanReceive
    /\ \E u \in LockUris : LockReceive("didOpen", u)
    /\ UNCHANGED <<lkGuard, lkEntry, lkCrashed>>
    /\ UNCHANGED lockOthers

\* did_open after its await: documents.insert(uri, rope), and the return.
LockDidOpenInsert ==
    /\ ~lkCrashed
    /\ \E h \in 1..MaxLockMsgs :
          /\ lkHandlers[h].kind = "didOpen" /\ lkHandlers[h].pc = "log"
          /\ lkGuard[lkHandlers[h].uri] = 0
          /\ lkEntry' = [lkEntry EXCEPT ![lkHandlers[h].uri] = TRUE]
          /\ lkHandlers' = [lkHandlers EXCEPT ![h] = LockFree]
    /\ UNCHANGED <<lkGuard, lkReceived, lkCrashed>>
    /\ UNCHANGED lockOthers

\* did_change to its await.
LockDidChange ==
    /\ LockCanReceive
    /\ \E u \in LockUris, b \in LockBatches :
          /\ lkHandlers' = [lkHandlers EXCEPT
                               ![lkReceived + 1] =
                                   [LockHandler("didChange", u) EXCEPT !.batch = b, !.k = 1]]
          /\ lkReceived' = lkReceived + 1
    /\ UNCHANGED <<lkGuard, lkEntry, lkCrashed>>
    /\ UNCHANGED lockOthers

\* did_change after its await: get_mut, which gives the entry and holds it,
\* or None, on which the handler returns.
LockGetMut ==
    /\ ~lkCrashed
    /\ \E h \in 1..MaxLockMsgs :
          /\ lkHandlers[h].kind = "didChange" /\ lkHandlers[h].pc = "log"
          /\ lkGuard[lkHandlers[h].uri] = 0
          /\ IF lkEntry[lkHandlers[h].uri]
             THEN /\ lkGuard' = [lkGuard EXCEPT ![lkHandlers[h].uri] = h]
                  /\ lkHandlers' = [lkHandlers EXCEPT ![h].pc = "apply"]
             ELSE /\ lkGuard' = lkGuard
                  /\ lkHandlers' = [lkHandlers EXCEPT ![h] = LockFree]
    /\ UNCHANGED <<lkEntry, lkReceived, lkCrashed>>
    /\ UNCHANGED lockOthers

\* One turn of the loop of did_change on the entry it holds; the RefMut is
\* dropped after the last change.  A panic of rope.remove ends the server.
LockApply ==
    /\ ~lkCrashed
    /\ \E h \in 1..MaxLockMsgs :
          /\ lkHandlers[h].kind = "didChange" /\ lkHandlers[h].pc = "apply"
          /\ IF lkHandlers[h].batch[lkHandlers[h].k] = "panics"
             THEN /\ lkCrashed' = TRUE
                  /\ UNCHANGED <<lkGuard, lkHandlers>>
             ELSE /\ lkCrashed' = lkCrashed
                  /\ IF lkHandlers[h].k = Len(lkHandlers[h].batch)
                     THEN /\ lkGuard' = [lkGuard EXCEPT ![lkHandlers[h].uri] = 0]
                          /\ lkHandlers' = [lkHandlers EXCEPT ![h] = LockFree]
                     ELSE /\ lkGuard' = lkGuard
                          /\ lkHandlers' = [lkHandlers EXCEPT ![h].k = lkHandlers[h].k + 1]
    /\ UNCHANGED <<lkEntry, lkReceived>>
    /\ UNCHANGED lockOthers

\* did_close to its await: documents.remove(&uri).
LockDidClose ==
    /\ LockCanReceive
    /\ \E u \in LockUris :
          /\ lkGuard[u] = 0
          /\ lkEntry' = [lkEntry EXCEPT ![u] = FALSE]
          /\ LockReceive("didClose", u)
    /\ UNCHANGED <<lkGuard, lkCrashed>>
    /\ UNCHANGED lockOthers

\* completion to its await: documents.get(uri) and the clone of the rope,
\* the Ref dropped with the statement; Ok(None) at once without an entry;
\* lsp_pos_to_char panics for a cursor on no line of the rope.
LockCompletion ==
    /\ LockCanReceive
    /\ \E u \in LockUris, onLine \in BOOLEAN :
          /\ lkGuard[u] = 0
          /\ lkCrashed' = (lkEntry[u] /\ ~onLine)
          /\ lkHandlers' = IF lkEntry[u] /\ onLine
                           THEN [lkHandlers EXCEPT
                                    ![lkReceived + 1] = LockHandler("completion", u)]
                           ELSE lkHandlers
          /\ lkReceived' = lkReceived + 1
    /\ UNCHANGED <<lkGuard, lkEntry>>
    /\ UNCHANGED lockOthers

\* goto_definition and hover to their first await; they take no entry.
LockLinkRequest ==
    /\ LockCanReceive
    /\ \E u \in LockUris, kind \in {"definition", "hover"} : LockReceive(kind, u)
    /\ UNCHANGED <<lkGuard, lkEntry, lkCrashed>>
    /\ UNCHANGED lockOthers

\* did_close and the requests after their last await: the return.
LockReturn ==
    /\ ~lkCrashed
    /\ \E h \in 1..MaxLockMsgs :
          /\ lkHandlers[h].kind \in {"didClose", "completion", "definition", "hover"}
          /\ lkHandlers[h].pc = "log"
          /\ lkHandlers' = [lkHandlers EXCEPT ![h] = LockFree]
    /\ UNCHANGED <<lkGuard, lkEntry, lkReceived, lkCrashed>>
    /\ UNCHANGED lockOthers

\* What the handlers in flight do once the runtime polls them again.
LockHandlerStep == LockDidOpenInsert \/ LockGetMut \/ LockApply \/ LockReturn

LockNext ==
    \/ LockDidOpen \/ LockDidOpenInsert
    \/ LockDidChange \/ LockGetMut \/ LockApply
    \/ LockDidClose \/ LockCompletion \/ LockLinkRequest \/ LockReturn

(***************************************************************************)
(* The specifications.                                                     *)
(***************************************************************************)
InitPath == PathInit /\ PosIdle /\ DocIdle /\ RankIdle /\ LspIdle /\ SearchIdle /\ VaultIdle /\ PipelineIdle /\ CompletionIdle /\ DefinitionIdle /\ QueryIdle /\ ChangeIdle /\ StrippedIdle /\ ParseIdle /\ BuildIdle /\ StoreIdle /\ LockIdle

SpecPath == InitPath /\ [][PathNext]_vars

InitPos == PosInit /\ PathIdle /\ DocIdle /\ RankIdle /\ LspIdle /\ SearchIdle /\ VaultIdle /\ PipelineIdle /\ CompletionIdle /\ DefinitionIdle /\ QueryIdle /\ ChangeIdle /\ StrippedIdle /\ ParseIdle /\ BuildIdle /\ StoreIdle /\ LockIdle

SpecPos == InitPos /\ [][PosNext]_vars

InitDoc == DocInit /\ PathIdle /\ PosIdle /\ RankIdle /\ LspIdle /\ SearchIdle /\ VaultIdle /\ PipelineIdle /\ CompletionIdle /\ DefinitionIdle /\ QueryIdle /\ ChangeIdle /\ StrippedIdle /\ ParseIdle /\ BuildIdle /\ StoreIdle /\ LockIdle

SpecDoc == InitDoc /\ [][DocNext]_vars

InitRank == RankInit /\ PathIdle /\ PosIdle /\ DocIdle /\ LspIdle /\ SearchIdle /\ VaultIdle /\ PipelineIdle /\ CompletionIdle /\ DefinitionIdle /\ QueryIdle /\ ChangeIdle /\ StrippedIdle /\ ParseIdle /\ BuildIdle /\ StoreIdle /\ LockIdle

SpecRank == InitRank /\ [][RankNext]_vars

\* The graphs in which a document holds at most one link, to a note by its
\* absolute path: chains, cycles, self-links and documents without links.
OneLinkEach ==
    /\ \A k \in 1..Len(rkLinks) : LinkUrlNo(rkLinks[k]) <= MaxDocs
    /\ \A j, k \in 1..Len(rkLinks) : LinkSrc(rkLinks[j]) = LinkSrc(rkLinks[k]) => j = k

\* rank() is sequential code that runs on: no step of it waits for ever.
InitRankFair == InitRank /\ OneLinkEach /\ StrippedIdle /\ ParseIdle /\ BuildIdle /\ StoreIdle /\ LockIdle
SpecRankFair == InitRankFair /\ [][RankNext]_vars /\ WF_vars(RankNext)

InitLsp == LspInit /\ PathIdle /\ PosIdle /\ DocIdle /\ RankIdle /\ SearchIdle /\ VaultIdle /\ PipelineIdle /\ CompletionIdle /\ DefinitionIdle /\ QueryIdle /\ ChangeIdle /\ StrippedIdle /\ ParseIdle /\ BuildIdle /\ StoreIdle /\ LockIdle

SpecLsp == InitLsp /\ [][LspNext]_vars

InitSearch == SearchInit /\ PathIdle /\ PosIdle /\ DocIdle /\ RankIdle /\ LspIdle /\ VaultIdle /\ PipelineIdle /\ CompletionIdle /\ DefinitionIdle /\ QueryIdle /\ ChangeIdle /\ StrippedIdle /\ ParseIdle /\ BuildIdle /\ StoreIdle /\ LockIdle

SpecSearch == InitSearch /\ [][SearchNext]_vars


InitVault == VaultInit /\ PathIdle /\ PosIdle /\ DocIdle /\ RankIdle /\ LspIdle /\ SearchIdle /\ PipelineIdle /\ CompletionIdle /\ DefinitionIdle /\ QueryIdle /\ ChangeIdle /\ StrippedIdle /\ ParseIdle /\ BuildIdle /\ StoreIdle /\ LockIdle

SpecVault == InitVault /\ [][VaultNext]_vars


InitPipeline == PipelineInit /\ PathIdle /\ PosIdle /\ DocIdle /\ RankIdle /\ LspIdle /\ SearchIdle /\ VaultIdle /\ CompletionIdle /\ DefinitionIdle /\ QueryIdle /\ ChangeIdle /\ StrippedIdle /\ ParseIdle /\ BuildIdle /\ StoreIdle /\ LockIdle
SpecPipeline == InitPipeline /\ [][PipelineNext]_vars


InitCompletion == CompletionInit /\ PathIdle /\ PosIdle /\ DocIdle /\ RankIdle /\ LspIdle /\ SearchIdle /\ VaultIdle /\ PipelineIdle /\ DefinitionIdle /\ QueryIdle /\ ChangeIdle /\ StrippedIdle /\ ParseIdle /\ BuildIdle /\ StoreIdle /\ LockIdle
SpecCompletion == InitCompletion /\ [][CompletionNext]_vars


InitDefinition == DefinitionInit /\ PathIdle /\ PosIdle /\ DocIdle /\ RankIdle /\ LspIdle /\ SearchIdle /\ VaultIdle /\ PipelineIdle /\ CompletionIdle /\ QueryIdle /\ ChangeIdle /\ StrippedIdle /\ ParseIdle /\ BuildIdle /\ StoreIdle /\ LockIdle
SpecDefinition == InitDefinition /\ [][DefinitionNext]_vars


InitQuery == QueryInit /\ PathIdle /\ PosIdle /\ DocIdle /\ RankIdle /\ LspIdle /\ SearchIdle /\ VaultIdle /\ PipelineIdle /\ CompletionIdle /\ DefinitionIdle /\ ChangeIdle /\ StrippedIdle /\ ParseIdle /\ BuildIdle /\ StoreIdle /\ LockIdle
SpecQuery == InitQuery /\ [][QueryNext]_vars


InitChange == ChangeInit /\ PathIdle /\ PosIdle /\ DocIdle /\ RankIdle /\ LspIdle /\ SearchIdle /\ VaultIdle /\ PipelineIdle /\ CompletionIdle /\ DefinitionIdle /\ QueryIdle /\ StrippedIdle /\ ParseIdle /\ BuildIdle /\ StoreIdle /\ LockIdle
SpecChange == InitChange /\ [][ChangeNext]_vars


InitStripped == StrippedInit /\ PathIdle /\ PosIdle /\ DocIdle /\ RankIdle /\ LspIdle /\ SearchIdle /\ VaultIdle /\ PipelineIdle /\ CompletionIdle /\ DefinitionIdle /\ QueryIdle /\ ChangeIdle /\ ParseIdle /\ BuildIdle /\ StoreIdle /\ LockIdle
SpecStripped == InitStripped /\ [][StrippedNext]_vars


InitParse == ParseInit /\ PathIdle /\ PosIdle /\ DocIdle /\ RankIdle /\ LspIdle /\ SearchIdle /\ VaultIdle /\ PipelineIdle /\ CompletionIdle /\ DefinitionIdle /\ QueryIdle /\ ChangeIdle /\ StrippedIdle /\ BuildIdle /\ StoreIdle /\ LockIdle
SpecParse == InitParse /\ [][ParseNext]_vars


InitBuild == BuildInit /\ PathIdle /\ PosIdle /\ DocIdle /\ RankIdle /\ LspIdle /\ SearchIdle /\ VaultIdle /\ PipelineIdle /\ CompletionIdle /\ DefinitionIdle /\ QueryIdle /\ ChangeIdle /\ StrippedIdle /\ ParseIdle /\ StoreIdle /\ LockIdle
SpecBuild == InitBuild /\ [][BuildNext]_vars


InitStore == StoreInit /\ PathIdle /\ PosIdle /\ DocIdle /\ RankIdle /\ LspIdle /\ SearchIdle /\ VaultIdle /\ PipelineIdle /\ CompletionIdle /\ DefinitionIdle /\ QueryIdle /\ ChangeIdle /\ StrippedIdle /\ ParseIdle /\ BuildIdle /\ LockIdle
SpecStore == InitStore /\ [][StoreNext]_vars


InitLock == LockInit /\ PathIdle /\ PosIdle /\ DocIdle /\ RankIdle /\ LspIdle /\ SearchIdle /\ VaultIdle /\ PipelineIdle /\ CompletionIdle /\ DefinitionIdle /\ QueryIdle /\ ChangeIdle /\ StrippedIdle /\ ParseIdle /\ BuildIdle /\ StoreIdle

\* The server under a runtime that polls every handler that can go on: the
\* client takes the log messages, so no await of a handler lasts for ever.
SpecLock == InitLock /\ [][LockNext]_vars /\ WF_vars(LockHandlerStep)

(***************************************************************************)
(* The claims.                                                             *)
(***************************************************************************)

\* The request that was answered last was received after a didChange on
\* its Url had returned, and no notification for that Url was in flight or
\* arrived while it ran.
AnsweredAfterChange ==
    /\ lspResponse.kind \in Requests
    /\ lspResponse.afterChange /\ lspResponse.stable /\ lspResponse.live.some

\* C1: after a didChange for a Url has returned, every later completion,
\* go-to-definition or hover on it is answered from the text the change has
\* left and from the links parsed from that text, not from the links parsed
\* when the vault was loaded.
C1_RequestsSeeTheChangedText ==
    AnsweredAfterChange =>
        /\ lspResponse.kind = "completion" => lspResponse.ans.rope = lspResponse.live.val
        /\ lspResponse.kind \in {"definition", "hover"} =>
              lspResponse.ans.link \in
                  GetLinkAt(DocumentParse(lspResponse.live.val).links,
                            lspResponse.row, lspResponse.col)

\* C2: for any single Url the effects of didOpen, didChange and didClose on
\* the store take place in the order the notifications were received, for
\* every interleaving of the handlers at their awaits: once no notification
\* for the Url is in flight, its entry is what the notifications give when
\* each is applied on arrival.
C2_NotificationsTakeEffectInOrder ==
    \A u \in DOMAIN Uris :
        (Settled(u) /\ ~lspCrashed) => lspDocuments[u] = lspExpected[u]

\* C3: a didChange holds the entry of its Url for the whole batch: no
\* reader and no other writer finds in the entry a rope on which only some
\* changes of the batch, or the remove half of a splice, have been applied.
C3_NoPartialBatchIsObserved ==
    /\ ~lspTorn
    /\ \A u \in DOMAIN Uris : lspGuard[u] = 0 => lspDocuments[u] = lspCommitted[u]

\* A didChange has applied the first splice of its batch and the remove half
\* of the second while a didOpen for the same Url waits to insert.
C3_Witness ==
    \E h, w \in 1..MaxMsgs :
        /\ lspHandlers[h].kind = "didChange" /\ lspHandlers[h].pc = "apply"
        /\ lspHandlers[h].k = 2 /\ lspHandlers[h].at >= 0
        /\ lspGuard[lspHandlers[h].uri] = h
        /\ lspDocuments[lspHandlers[h].uri] # lspCommitted[lspHandlers[h].uri]
        /\ lspHandlers[w].kind = "didOpen" /\ lspHandlers[w].pc = "log"
        /\ lspHandlers[w].uri = lspHandlers[h].uri

\* C4: after any sequence of didOpen, didChange and didClose a Url is in
\* the store iff the last didOpen or didClose received for it was a
\* didOpen (a didOpen replaces the entry, a didClose removes it).
C4_InStoreIffLastOpened ==
    \A u \in DOMAIN Uris :
        (Settled(u) /\ ~lspCrashed) => (lspDocuments[u].some <=> lspLastOC[u] = "open")

\* C5: a completion, go-to-definition or hover for a Url that is not in
\* the store fails with InvalidParams.
C5_AbsentDocumentIsInvalidParams ==
    (lspResponse.kind \in Requests /\ lspResponse.absent /\ lspResponse.stable) =>
        lspResponse.ans.result = "InvalidParams"

\* C6: two MarkdownPaths are equal iff their canonical paths are equal, the
\* hash is derived from the canonical path only, so paths for the same file
\* built from different base/leaf splits hash identically, and a lookup in
\* a map keyed by MarkdownPath finds the entry under any equal key.
C6_EqualPathsHashAlikeAndAreFound ==
    (pathA.ok /\ pathB.ok) =>
        /\ MarkdownPathEq(pathA, pathB) <=> (pathA.canonical_path = pathB.canonical_path)
        /\ MarkdownPathEq(pathA, pathB) =>
              /\ MarkdownPathHash(pathA) = MarkdownPathHash(pathB)
              /\ (pathPc = "done" => pathGot = Some(1))

\* C7: for every byte offset b on a character boundary of a text,
\* offset_to_position(b) succeeds, also on the first line, and
\* position_to_offset of its result is b, under the three encodings.
C7_OffsetRoundTrips ==
    pmPc \in {"forward", "done"} =>
        /\ pmPosition.ok
        /\ (pmPc = "done" => (pmBack.ok /\ pmBack.offset = pmOffset))

\* (row, col) lies between the first and the last position of the link,
\* both included, in document order.
Covers(link, row, col) ==
    LET r == link.position.row_range
        c == link.position.col_range
    IN  /\ (r[1] < row \/ (r[1] = row /\ c[1] <= col))
        /\ (row < r[2] \/ (row = r[2] /\ col <= c[2]))

\* C8: for every Link of a Document and every (row, col) its pos covers,
\* ends included, link_at(row, col) returns that Link; no position is
\* covered by two Links, the boundary between adjacent links and the
\* positions of a link over several rows included.
C8_LinkAtReturnsTheCoveringLink ==
    docPc = "found" =>
        \A l \in docLinks : Covers(l, docRow, docCol) => docFound = Some(l)

\* The rank vector exists: rank() has initialised it, and iterated zero or
\* more times.
RanksComputed == rkPc \in {"loop", "done"}

ZeroEdges == \A i \in 1..rkNumDocs : rkOutdeg[i] = 0

LinkResolvesTo(code, j) ==
    LET target == LinkTargets[LinkUrlNo(code)]
    IN  target.some /\ MarkdownPathEq(target.val, DocumentPath(j))

\* The two-document graph A -> B: B is document 1, A is document 2; A holds
\* a link that resolves to B, and no other link resolves to a document.
GraphAToB ==
    /\ rkNumDocs = 2
    /\ \E k \in 1..Len(rkLinks) : LinkSrc(rkLinks[k]) = 2 /\ LinkResolvesTo(rkLinks[k], 1)
    /\ \A k \in 1..Len(rkLinks) : \A j \in 1..2 :
          LinkResolvesTo(rkLinks[k], j) => (LinkSrc(rkLinks[k]) = 2 /\ j = 1)

\* C11: on the two-document graph where A links to B and B has no outgoing
\* resolvable link, the result of the Ranker after its iterations has
\* rank[B] > rank[A] and rank[A] + rank[B] = 1.
C11_LinkedToDocumentRanksHigher ==
    (rkPc = "done" /\ rkIter >= 1 /\ GraphAToB) =>
        /\ rkRank[1] > rkRank[2]
        /\ rkRank[1] + rkRank[2] = rkDen

\* The number of documents of the corpus whose token set contains the term.
DocumentsWith(term) == Cardinality({i \in 1..Len(srDocs) : term \in Tokenize(srDocs[i])})

\* C12: after Corpus construction df[t] is, for every term t, the number of
\* corpus documents whose de-duplicated token set contains t, and df holds
\* no other term.
C12_DfCountsTheDocumentsOfATerm ==
    srPc \in {"ready", "scored"} =>
        /\ DOMAIN srDf = UNION {Tokenize(srDocs[i]) : i \in 1..Len(srDocs)}
        /\ \A term \in DOMAIN srDf : srDf[term] = DocumentsWith(term)

\* C13: for a document d and a term t, appending one more occurrence of t
\* to d gives a strictly higher score for the query t against the same
\* Corpus: here the scored document is d with the extra t, and the score of
\* d (the scored document without its last word) is strictly lower.  It is
\* stated for the terms that the corpus holds, the score of any other term
\* being 0 for every document.
C13_OneMoreOccurrenceRaisesTheScore ==
    (/\ srPc = "scored" /\ Len(srQuery) = 1 /\ Len(srDocument) >= 1
     /\ Last(srDocument) = srQuery[1] /\ srQuery[1] \in DOMAIN srIdf) =>
        LET t == srQuery[1]
            with == srScore[t]
            without == CorpusScore(srAvgdl, srIdf, srQuery, Front(srDocument))[t]
        IN  /\ with.factor.kind = "num" /\ without.factor.kind = "num"
            /\ RatLess(Rat(1, 1), with.idf)
            /\ RatLess(Rat(without.factor.num, without.factor.den),
                       Rat(with.factor.num, with.factor.den))

VaultChildren == ReadDir(vtBase).entries

ChildOutcome(path) == DocumentNew(vtBase, path, vtContent).outcome

\* C15: Vault::new over a readable directory always succeeds and returns,
\* next to the Vault, one non-fatal error for every direct child whose
\* Document construction failed; the Vault holds exactly the children whose
\* construction succeeded; only a failure to enumerate the directory is
\* fatal.
C15_VaultOpenCollectsTheFailures ==
    (vtPc \notin {"idle", "start"}) =>
        IF ReadDir(vtBase).ok
        THEN /\ vtPc \in {"loaded", "backlinks"}
             /\ vtErrors = {path \in VaultChildren : ChildOutcome(path) # "Ok"}
             /\ {e.key.canonical_path : e \in vtDocuments}
                    = {Canonicalize(path) : path \in {q \in VaultChildren : ChildOutcome(q) = "Ok"}}
        ELSE vtPc = "failed"

\* The documents of the vault that hold a link which resolves, against the
\* vault's directory, to the path.
DocumentsLinkingTo(target) ==
    {e.value.path : e \in {d \in vtDocuments :
        \E link \in d.value.links :
            LET path == LinkToMarkdownPath(link.url, vtBase)
            IN  path.some /\ path.val.canonical_path = target.canonical_path}}

C17_ResultsSortedByScoreThenTitle ==
    plPc = "printed" =>
        /\ Len(plRes) <= MAX_RESULTS
        /\ \A i, j \in 1..Len(plRes) :
              i < j =>
                  \/ plRes[i].combined > plRes[j].combined
                  \/ /\ plRes[i].combined = plRes[j].combined
                     /\ TitleBefore(plRes[i].document, plRes[j].document)

\* The char indices, within the chars the scan may visit, of a "[" that
\* follows a "[" with neither "]" nor a newline between it and the cursor.
PairsMet(rope, cursor_char) ==
    {i \in (IF cursor_char > ScanLimit THEN cursor_char - ScanLimit ELSE 0)..(cursor_char - 1) :
        /\ i > 0
        /\ rope[i + 1] = "["
        /\ rope[i] = "["
        /\ \A j \in (i + 1)..(cursor_char - 1) : rope[j + 1] \notin {"]", Newline}}

\* C18: completion goes back from the cursor over at most 200 chars and
\* stops at the first "]" or newline; it has a trigger exactly when it meets
\* a "[[" before it stops, the query is then the text between that "[[" and
\* the cursor, and without a trigger the response is none.
C18_TriggerIsTheNearestOpenPair ==
    (cpPc = "answered" /\ cpCursorChar >= 0) =>
        LET met == PairsMet(cpRope, cpCursorChar)
        IN  /\ cpTrigger.query.some <=> met # {}
            /\ cpTrigger.query.some =>
                  LET i == CHOOSE i \in met : \A j \in met : j <= i
                  IN  /\ cpTrigger.start_char = i - 1
                      /\ cpTrigger.query.val = SubSeq(cpRope, i + 2, cpCursorChar)
            /\ ~cpTrigger.query.some => cpAnswer.result = "None"

\* "[[" and 199 chars after it with the cursor at the end: the scan visits
\* 200 chars, the last of them the second "[", and the query is the 199.
C18_Witness ==
    /\ cpPc = "answered"
    /\ cpRope = LongRope(ScanLimit - 1)
    /\ cpCursorChar = Len(cpRope)
    /\ cpTrigger.query.some
    /\ Len(cpTrigger.query.val) = ScanLimit - 1
    /\ cpAnswer.result = "None"

\* C19: the edit range of the items starts at the first "[" of the trigger
\* and ends at the cursor, or two chars after the cursor exactly when these
\* two chars are "]]"; it does not go past the end of the document.
C19_EditRangeFromTriggerToCursor ==
    (cpPc = "answered" /\ cpAnswer.result = "Items") =>
        LET range == cpAnswer.range
            s == LspPosToChar(cpRope, range[1], range[2])
            e == LspPosToChar(cpRope, range[3], range[4])
            closed == /\ cpCursorChar + 2 <= Len(cpRope)
                      /\ cpRope[cpCursorChar + 1] = "]"
                      /\ cpRope[cpCursorChar + 2] = "]"
        IN  /\ s = cpTrigger.start_char
            /\ cpRope[s + 1] = "[" /\ cpRope[s + 2] = "["
            /\ e = IF closed THEN cpCursorChar + 2 ELSE cpCursorChar
            /\ e <= Len(cpRope)
            /\ range[3] < RopeLenLines(cpRope)

\* The cursor stands between "[[" and "]]": the range runs from the "[["
\* over the "]]".
C19_Witness ==
    /\ cpPc = "answered"
    /\ cpAnswer.result = "Items"
    /\ cpCursorChar + 2 <= Len(cpRope)
    /\ SubSeq(cpRope, cpCursorChar + 1, cpCursorChar + 2) = <<"]", "]">>
    /\ cpRope = <<"[", "[", "]", "]">>
    /\ cpAnswer.range = <<0, 0, 0, 4>>

\* The links of the document whose pos covers the cursor.
CoveringLinks == {l \in gdLinks : Covers(l, gdCursor[1], gdCursor[2])}

\* C20: goto_definition on a document the vault knows answers none when no
\* Link covers the cursor, a server error when a Link covers it and does
\* not resolve, and otherwise one Location whose range is the pos of that
\* Link.
C20_DefinitionHasThreeOutcomes ==
    gdPc = "answered" =>
        /\ (CoveringLinks = {}) => gdAnswer.result = "None"
        /\ (CoveringLinks # {}) =>
              /\ gdAnswer.link.some
              /\ gdAnswer.link.val \in CoveringLinks
              /\ gdAnswer.result =
                    IF VaultResolveLink(gdAnswer.link.val).some THEN "Location" ELSE "ServerError"
              /\ gdAnswer.result = "Location" => gdAnswer.range = LinkRange(gdAnswer.link.val)

\* The truth value of a query whose nodes are at most the root and its
\* children's results, by the tables: Contains is false without its key.
TruthTable(query, left, right) ==
    CASE query.op = "Contains" ->
            /\ query.key \in DOMAIN qyMetadata
            /\ LET v == qyMetadata[query.key]
               IN  \/ v.kind = "String" /\ v.val = query.value
                   \/ v.kind = "Integer" /\ query.value = "1" /\ v.n = 1
                   \/ v.kind = "Array" /\ \E i \in 1..Len(v.values) : v.values[i].val = query.value
      [] query.op = "Not" -> left = FALSE
      [] query.op = "And" -> <<left, right>> = <<TRUE, TRUE>>
      [] query.op = "Or" -> <<left, right>> # <<FALSE, FALSE>>
      [] query.op = "Xor" -> <<left, right>> \in {<<TRUE, FALSE>>, <<FALSE, TRUE>>}

\* C21: matches follows the truth tables at the root of the query, its
\* children being matched by themselves: Not negates, And, Or and Xor are
\* conjunction, disjunction and exclusive or, and Contains is false when the
\* key is absent.
C21_MatchesFollowsTheTruthTables ==
    qyPc = "matched" =>
        qyResult =
            CASE qyQuery.op = "Contains" -> TruthTable(qyQuery, FALSE, FALSE)
              [] qyQuery.op = "Not" ->
                    TruthTable(qyQuery, QueryMatches(qyQuery.query, qyMetadata), FALSE)
              [] OTHER ->
                    TruthTable(qyQuery, QueryMatches(qyQuery.left, qyMetadata),
                               QueryMatches(qyQuery.right, qyMetadata))

\* tags is [rust, pl] and (xor (contains tags rust) (contains tags pl)) has
\* been matched: it does not match.
C21_Witness ==
    /\ qyPc = "matched"
    /\ qyQuery = Binary("Xor", Contains("tags", "rust"), Contains("tags", "pl"))
    /\ qyMetadata = [k \in {"tags"} |-> ValueArray(<<ValueString("rust"), ValueString("pl")>>)]
    /\ qyResult = FALSE

\* The char index of a position of the rope: the index on that line whose
\* distance from the start of the line is `character` UTF-16 code units; a
\* position at or past the end of its line is the end of the line, as the
\* protocol has it.  None on a line the rope does not have.
EndpointOf(rope, position) ==
    IF position[1] >= RopeLenLines(rope) THEN None
    ELSE LET from == RopeLineToChar(rope, position[1])
             line == RopeLine(rope, position[1])
             body == IF line # <<>> /\ Last(line) = Newline
                     THEN SubSeq(line, 1, Len(line) - 1) ELSE line
             at == {k \in 0..Len(body) : Utf16Count(SubSeq(body, 1, k)) <= position[2]}
         IN  Some(from + (CHOOSE k \in at : \A j \in at : j <= k))

\* The changes applied one after another, none of them skipped: a change
\* with a range replaces the text between its endpoints.
RECURSIVE SplicedInOrder(_, _)
SplicedInOrder(rope, changes) ==
    IF changes = <<>> THEN Some(rope)
    ELSE LET c == Head(changes)
             s == EndpointOf(rope, c.start)
             e == EndpointOf(rope, c.end)
         IN  IF c.full THEN SplicedInOrder(c.text, Tail(changes))
             ELSE IF ~(s.some /\ e.some) \/ s.val > e.val THEN None
             ELSE SplicedInOrder(SubSeq(rope, 1, s.val) \o c.text
                                    \o SubSeq(rope, e.val + 1, Len(rope)),
                                 Tail(changes))

\* C22: after didChange the rope is the previous rope with the changes of
\* the batch applied one after another in the order of the list, a change
\* with a range replacing the text between its two endpoints and a change
\* without one the whole text; no change of the batch is skipped.
C22_EveryChangeOfTheBatchIsApplied ==
    chPc = "changed" =>
        /\ chResult.ok
        /\ chResult.rope = SplicedInOrder(chRope, chBatch).val

\* The sum of the absolute changes between the ranks of two consecutive
\* iterations is below tol.
DeltaBelowTol ==
    LET common == Lcm(rkDen, rkDen')
    IN  SumSeq([i \in 1..Len(rkRank) |->
                   Abs(rkRank'[i] * (common \div rkDen') - rkRank[i] * (common \div rkDen))])
            <= (common - 1) \div TolDen

\* Every document has one link, and one link to it from another document.
ThreeCycle ==
    /\ rkNumDocs = 3
    /\ \A i \in 1..3 : rkOutdeg[i] = 1 /\ Len(rkInbound[i]) = 1 /\ rkInbound[i][1] # i

\* C23: the loop of the Ranker terminates: it runs at most num_iter
\* iterations, it stops after the first iteration whose delta is below tol
\* and goes on after any other before the maximum, and on the 3-cycle, whose
\* ranks are at the fixed point from the start, it stops after one.
C23_RankerLoopTerminates ==
    /\ [][rkPc = "loop" =>
            /\ rkIter' <= rkNumIter
            /\ (rkPc' = "done") <=> (DeltaBelowTol \/ rkIter' = rkNumIter)]_vars
    /\ []((rkPc = "done" /\ ThreeCycle /\ rkNumIter >= 1) => rkIter = 1)
    /\ <>(rkPc = "done")

\* The loop has stopped after one of its two iterations on the 3-cycle.
C23_Witness ==
    /\ rkPc = "done"
    /\ ThreeCycle
    /\ rkNumIter = MaxIter
    /\ rkIter = 1

\* The texts of the document by their place: those of the blocks that
\* stripped is to drop, and those of the paragraphs.
TextsInside ==
    {<<i, j>> : i \in 1..Len(stBlocks), j \in 1..MaxParagraphs} \cap
    {t \in (1..Len(stBlocks)) \X (1..MaxParagraphs) :
        stBlocks[t[1]].kind # "Paragraph" /\ t[2] <= stBlocks[t[1]].paragraphs}

TextsOutside == {<<i, 1>> : i \in {k \in 1..Len(stBlocks) : stBlocks[k].kind = "Paragraph"}}

\* C24: the stripped text holds no text of a code block, table, image,
\* footnote definition or metadata block, nested elements included, and it
\* holds all the text outside of them.
C24_StrippedDropsTheBlocks ==
    stPc = "stripped" =>
        LET kept == {stResult[k].text :
                        k \in {n \in 1..Len(stResult) : "text" \in DOMAIN stResult[n]}}
        IN  /\ \A t \in TextsInside : t \notin kept
            /\ \A t \in TextsOutside : t \in kept

\* C25: no request or notification terminates the server: no handler panics,
\* whatever position or range the client sends, and notifications and
\* requests can still be received afterwards.
C25_NoHandlerTerminatesTheServer == ~lspCrashed

\* The labels of the links whose position can be computed.
ReadableLabels == {<<LinkLabels[k]>> : k \in {n \in 1..Len(dpReads) : dpReads[n]}}

\* C26: a link whose position cannot be computed and a frontmatter entry
\* with a key that is no string are the only ones dropped: every other link
\* and entry, before and after, is recorded, and construction succeeds.
C26_OnlyTheFailingLinkOrEntryIsDropped ==
    dpPc # "new" /\ dpPc # "idle" =>
        /\ dpPc = "constructed"
        /\ {l.text : l \in dpLinks} = ReadableLabels
        /\ dpMetadata = {k \in 1..Len(dpEntries) : dpEntries[k] = "String"}

\* How often each document occurs in a Vec of documents.
DocsCount(docs) ==
    [d \in {docs[i] : i \in 1..Len(docs)} |-> Cardinality({i \in 1..Len(docs) : docs[i] = d})]

\* C27: whatever the order in which the workers take the entries, the map
\* iterates and the reduce groups, Vault::new gives the same map and the
\* same Corpus statistics: those of the entries taken one after the other.
C27_VaultNewIsDeterministic ==
    \A vault \in {VaultRead(BuildDir(pbBase), pbBase, pbContent)} :
        /\ pbPc = "failed" => vault.outcome = "ReadDirFailed"
        /\ pbPc = "panicked" => vault.outcome = "Panic"
        /\ pbPc = "done" =>
              /\ vault.outcome = "Ok"
              /\ pbDocuments = vault.documents
              /\ \A corpus \in {VaultCorpus(vault.documents)} :
                    /\ DocsCount(pbCorpus.docs) = DocsCount(corpus.docs)
                    /\ pbCorpus.df = corpus.df
                    /\ pbCorpus.idf = corpus.idf
                    /\ pbCorpus.avgdl = corpus.avgdl

\* Two documents that share a term, collected in the other order than the
\* one the entries have when taken one after the other.
C27_Witness ==
    /\ pbPc = "done"
    /\ Len(pbCorpus.docs) = 2
    /\ pbCorpus.docs[1] # pbCorpus.docs[2]
    /\ Tokenize(pbCorpus.docs[1]) \cap Tokenize(pbCorpus.docs[2]) # {}
    /\ pbCorpus.docs # VaultCorpus(pbDocuments).docs

\* C28: a notification for a Url leaves the entry of every other Url as it
\* was, a didChange for a Url without an entry changes nothing, and no
\* handler changes the Vault.
C28_HandlersWriteTheirOwnEntryOnly ==
    [][/\ \A v \in StoreUris : v # fsUri' => fsStore'[v] = fsStore[v]
       /\ (fsKind' = "didChange" /\ ~fsStore[fsUri'].some) => fsStore' = fsStore
       /\ fsKind' \in Requests => fsStore' = fsStore
       /\ fsVault' = fsVault]_vars

\* A didClose has removed the entry of one Url while the other Url has an
\* entry.
C28_Witness ==
    /\ fsKind = "didClose"
    /\ ~fsStore[fsUri].some
    /\ \E v \in StoreUris : v # fsUri /\ fsStore[v].some

\* No handler suspended at an await holds an entry, and an entry is held
\* by a handler that is in its loop over the entry.
NoEntryHeldOverAwait ==
    /\ \A u \in LockUris :
          lkGuard[u] # 0 => /\ lkHandlers[lkGuard[u]].pc = "apply"
                            /\ lkHandlers[lkGuard[u]].uri = u
    /\ \A h \in 1..MaxLockMsgs :
          lkHandlers[h].pc = "log" => \A u \in LockUris : lkGuard[u] # h

\* C29: no handler is suspended while it holds an entry of the live store,
\* so the handlers do not wait for each other for ever and every handler
\* that has started completes.
C29_NoLockOverAwaitAndHandlersComplete ==
    /\ []NoEntryHeldOverAwait
    /\ \A h \in 1..MaxLockMsgs : (lkHandlers[h].pc # "free") ~> (lkHandlers[h].pc = "free")

\* The documents that Vault::find_backlinks returns for the path of
\* document j: those with a link that points to it.
BacklinksOf(j) ==
    {i \in 1..rkNumDocs :
        \E k \in 1..Len(rkLinks) :
            /\ LinkSrc(rkLinks[k]) = i
            /\ LinkPointsTo(LinkUrls[LinkUrlNo(rkLinks[k])], DocumentPath(j))}

\* The edges that the Ranker records: i in inbound[j] and outdeg[i] > 0.
RankerEdge(i, j) ==
    /\ \E n \in 1..Len(rkInbound[j]) : rkInbound[j][n] = i
    /\ rkOutdeg[i] > 0

\* C30: the Ranker records an edge i -> j iff find_backlinks of the path of
\* j returns document i.
C30_RankerEdgesAreTheBacklinks ==
    rkPc \in {"built", "loop", "done"} =>
        \A i \in 1..rkNumDocs, j \in 1..rkNumDocs : RankerEdge(i, j) <=> i \in BacklinksOf(j)

====
